---- MODULE Spec2Model ----
(***************************************************************************)
(* Verification model of relay-event-schema:                               *)
(*   - the recursive value-processing engine (processor/traits.rs,         *)
(*     processor/impls.rs), driven by a recording processor as in          *)
(*     tests/test_derive.rs;                                               *)
(*   - the getter of Event (protocol/event.rs, impl Getter for Event).     *)
(*                                                                         *)
(* The traversal is synchronous recursive evaluation, so the engine is a   *)
(* family of mutually recursive operators that thread the processor        *)
(* (its call log and call counter) through the calls and return a          *)
(* ProcessingResult.                                                       *)
(***************************************************************************)
EXTENDS Integers, Sequences, FiniteSets, TLC

\* ------------------------------------------------------------------ bounds
\* longest sequence / map / tuple in a traversed tree
MaxLen == 2
\* the recording processor can be told to return an action from any of its
\* first MaxAbort hook calls
MaxAbort == 7

VARIABLES
    tree,      \* the annotated value handed to the engine
    root,      \* the ProcessingState the driver passes in
    proc,      \* the processor: [log, n, abortAt, action]
    result,    \* the ProcessingResult returned to the driver
    phase,     \* "init", then "dispatched", "impl" or "children" by the operation run
    event,     \* getter: the Event
    path,      \* getter: the path string, as a sequence of tokens
    got,       \* getter: what get_value returned
    iter,      \* getter: what get_iter returned, the iterator with what it has left
    yielded    \* getter: the items next() has returned so far

vars == <<tree, root, proc, result, phase, event, path, got, iter, yielded>>

\* ------------------------------------------------------------- sequences
RECURSIVE SeqsUpTo(_, _)
SeqsUpTo(S, n) ==
    IF n = 0 THEN {<<>>}
    ELSE LET shorter == SeqsUpTo(S, n - 1)
         IN  shorter \cup {Append(s, x) : s \in {t \in shorter : Len(t) = n - 1}, x \in S}

Last(s) == s[Len(s)]

\* ----------------------------------------------------- ProcessingAction
\* traits.rs: enum ProcessingAction and type ProcessingResult
Ok == [ok |-> TRUE, act |-> "", reason |-> ""]
DeleteValueHard == [ok |-> FALSE, act |-> "DeleteValueHard", reason |-> ""]
DeleteValueSoft == [ok |-> FALSE, act |-> "DeleteValueSoft", reason |-> ""]
InvalidTransaction(r) == [ok |-> FALSE, act |-> "InvalidTransaction", reason |-> r]
ProcessingAction ==
    {DeleteValueHard, DeleteValueSoft, InvalidTransaction("r1"), InvalidTransaction("r2")}

\* ------------------------------------------------------- the value tree
\* A node is [ty, kids, keys]: ty names the Rust type of the value inside an
\* Annotated, kids are the contained values (elements, entries' values,
\* tuple slots, the boxed / wrapped value, the variant payload of a Value),
\* keys are the keys of an Object in insertion order.
Node(ty, kids, keys) == [ty |-> ty, kids |-> kids, keys |-> keys]
Leaf(ty) == Node(ty, <<>>, <<>>)
ScalarTypes == {"String", "Bool", "I64", "U64", "F64"}

\* ValueType (the kinds of the value-type bitset)
ValueType == {"String", "Boolean", "Number", "Array", "Object"}

\* value_type() of each impl (impls.rs); Uuid keeps the trait default
\* (traits.rs:146), Box forwards, Value matches on its variant.
RECURSIVE value_type(_)
\* variant: the tuples keep the trait default as well
value_type_tuple_default(node) ==
    CASE node.ty = "String" -> {"String"}
      [] node.ty = "Bool" -> {"Boolean"}
      [] node.ty \in {"U64", "I64", "F64"} -> {"Number"}
      [] node.ty \in {"Uuid", "Tuple"} -> {}
      [] node.ty = "Array" -> {"Array"}
      [] node.ty = "Object" -> {"Object"}
      [] node.ty \in {"Box", "Value", "HeaderName"} -> value_type(node.kids[1])

value_type(node) ==
    CASE node.ty = "String" -> {"String"}
      [] node.ty = "Bool" -> {"Boolean"}
      [] node.ty \in {"U64", "I64", "F64"} -> {"Number"}
      [] node.ty = "Uuid" -> {}
      [] node.ty \in {"Array", "Tuple"} -> {"Array"}
      [] node.ty = "Object" -> {"Object"}
      [] node.ty \in {"Box", "Value", "HeaderName"} -> value_type(node.kids[1])

\* ValueType::for_field(annotated): the value-type set of the value held
for_field(node) == value_type(node)

\* ------------------------------------------------------ ProcessingState
\* A state is the chain of frames from the root to the current position;
\* a frame is [kind, text, attrs, vt].  kind "none" is a frame without a
\* path segment.
Frame(kind, text, attrs, vt) == [kind |-> kind, text |-> text, attrs |-> attrs, vt |-> vt]
DefaultAttrs == "default"
\* a policy a field declaration sets (pii = "true")
PiiAttrs == "pii"
StateRoot == <<>>
attrs(st) == IF st = <<>> THEN DefaultAttrs ELSE Last(st).attrs
inner_attrs(st) == attrs(st)
enter_static(st, name, a, vt) == Append(st, Frame("static", name, a, vt))
enter_borrowed(st, key, a, vt) == Append(st, Frame("key", key, a, vt))
enter_index(st, index, a, vt) == Append(st, Frame("index", ToString(index), a, vt))
enter_nothing(st, a) ==
    Append(st, Frame("none", "", a, IF st = <<>> THEN {} ELSE Last(st).vt))

\* state.path(): the segments of the frames that have one, root first
\* (the dotted string is these joined by ".")
RECURSIVE state_path(_)
state_path(st) ==
    IF st = <<>> THEN <<>>
    ELSE LET up == state_path(SubSeq(st, 1, Len(st) - 1))
         IN  IF Last(st).kind = "none" THEN up ELSE Append(up, Last(st).text)

\* ---------------------------------------------------- the processor
\* The processor is the RecordingProcessor of tests/test_derive.rs with
\* the hooks in `over` overridden the same way: push the hook's name and
\* state.path(), push the marker, call process_child_values, push the
\* marker.  In addition its n-th call of an overridden hook returns
\* `action` when n = abortAt (abortAt = 0: no hook ever returns an action).
\* Next to the log the record keeps, in `seen`, the state each entry's call
\* was given: seen[i] belongs to log[i].
\* The hooks not in `over` are the defaults of the trait.
AllHooks ==
    {"process_string", "process_bool", "process_u64", "process_i64", "process_f64",
     "process_array", "process_object", "process_value", "process_header_name",
     "before_process", "after_process"}
Entry(kind, name, st) == [kind |-> kind, name |-> name, path |-> state_path(st)]
Record(P, kind, name, st) ==
    [P EXCEPT !.log = Append(@, Entry(kind, name, st)), !.seen = Append(@, st)]
Ret(P, res) == [P |-> P, res |-> res]

RECURSIVE process_value(_, _, _)
RECURSIVE T_process_value(_, _, _)
RECURSIVE T_process_child_values(_, _, _)
RECURSIVE ArrayLoop(_, _, _, _)
RECURSIVE ObjectLoop(_, _, _, _)
RECURSIVE TupleLoop(_, _, _, _)

\* a hook as the processor overrides it: recorded
Overridden(name, node, P, st) ==
    LET P1 == [Record(P, "hook", name, st) EXCEPT !.n = @ + 1]
    IN  IF P1.n = P1.abortAt THEN Ret(P1, P1.action)
        ELSE LET P2 == Record(P1, "marker", "before_process_child_values", st)
                 r  == T_process_child_values(node, P2, st)
             IN  IF r.res.ok
                 THEN Ret(Record(r.P, "marker", "after_process_child_values", st), Ok)
                 ELSE r

\* variant: the default body returns Ok without recursing
process_method_no_recurse(node, P, st) == Ret(P, Ok)

\* the body process_method! generates (traits.rs:47-48):
\* value.process_child_values(self, state)?; Ok(())
\* `?` returns an Err as it is and Ok(()) follows an Ok(()): the result of
\* the call is the result of the hook
process_method(node, P, st) == T_process_child_values(node, P, st)

\* a call of a hook: the processor's override if it has one (P.over), else
\* the default of the trait
Hook(name, node, P, st) ==
    IF name \in P.over THEN Overridden(name, node, P, st) ELSE process_method(node, P, st)

\* before_process / after_process (traits.rs:56, 66): recorded if
\* overridden, else the default Ok(())
before_process(node, P, st) ==
    IF "before_process" \notin P.over THEN Ret(P, Ok)
    ELSE LET P1 == [Record(P, "hook", "before_process", st) EXCEPT !.n = @ + 1]
         IN  IF P1.n = P1.abortAt THEN Ret(P1, P1.action) ELSE Ret(P1, Ok)

after_process(node, P, st) ==
    IF "after_process" \notin P.over THEN Ret(P, Ok)
    ELSE LET P1 == [Record(P, "hook", "after_process", st) EXCEPT !.n = @ + 1]
         IN  IF P1.n = P1.abortAt THEN Ret(P1, P1.action) ELSE Ret(P1, Ok)

\* ------------------------------------------------- impl ProcessValue
\* trait defaults (traits.rs:152, 166)
\* variant: a wrapper recurses into the value it wraps
default_process_child_values_recurse(node, P, st) ==
    IF node.ty \in {"Value", "HeaderName", "Box"}
    THEN T_process_value(node.kids[1], P, st)
    ELSE Ret(P, Ok)

default_process_child_values(node, P, st) == Ret(P, Ok)
default_process_value(node, P, st) == T_process_child_values(node, P, st)

\* impls.rs:11-129: the scalars dispatch to their hook
String_process_value(node, P, st) == Hook("process_string", node, P, st)
bool_process_value(node, P, st) == Hook("process_bool", node, P, st)
u64_process_value(node, P, st) == Hook("process_u64", node, P, st)
i64_process_value(node, P, st) == Hook("process_i64", node, P, st)
f64_process_value(node, P, st) == Hook("process_f64", node, P, st)

\* impls.rs:143 / 156
Array_process_value(node, P, st) == Hook("process_array", node, P, st)

\* variant: the loop goes on after an element returned an action and
\* returns the last result
ArrayLoop_continue(kids, i, P, st) ==
    IF i > Len(kids) THEN Ret(P, Ok)
    ELSE LET r == process_value(kids[i], P,
                      enter_index(st, i - 1, inner_attrs(st), for_field(kids[i])))
         IN  IF i = Len(kids) THEN r ELSE ArrayLoop(kids, i + 1, r.P, st)

\* variant: the state entered for an element stays entered for the next
ArrayLoop_keep_entered(kids, i, P, st) ==
    IF i > Len(kids) THEN Ret(P, Ok)
    ELSE LET r == process_value(kids[i], P,
                      enter_index(st, i - 1, inner_attrs(st), for_field(kids[i])))
         IN  IF r.res.ok
             THEN ArrayLoop(kids, i + 1, r.P,
                            enter_index(st, i - 1, inner_attrs(st), for_field(kids[i])))
             ELSE r

ArrayLoop(kids, i, P, st) ==
    IF i > Len(kids) THEN Ret(P, Ok)
    ELSE LET r == process_value(kids[i], P,
                      enter_index(st, i - 1, inner_attrs(st), for_field(kids[i])))
         IN  IF r.res.ok THEN ArrayLoop(kids, i + 1, r.P, st) ELSE r

\* variant: the loop starts at the second element
Array_process_child_values_skip(node, P, st) == ArrayLoop(node.kids, 2, P, st)

Array_process_child_values(node, P, st) == ArrayLoop(node.kids, 1, P, st)

\* impls.rs:186 / 199.  Object<T> is a BTreeMap (event.rs:1185 builds one
\* with BTreeMap::new()), so iter_mut() yields the entries by ascending key
\* whatever the order of insertion.
KeyAlphabet == <<"a", "b", "c", "d">>
KeyRank(k) == CHOOSE i \in 1..Len(KeyAlphabet) : KeyAlphabet[i] = k
RECURSIVE SortIdx(_, _)
SortIdx(keys, todo) ==
    IF todo = {} THEN <<>>
    ELSE LET m == CHOOSE i \in todo : \A j \in todo : KeyRank(keys[i]) <= KeyRank(keys[j])
         IN  <<m>> \o SortIdx(keys, todo \ {m})
\* variant: the entries come in the order they were inserted
iter_mut_insertion(node) == [i \in 1..Len(node.keys) |-> i]

\* the positions of the entries in iteration order
iter_mut(node) == SortIdx(node.keys, 1..Len(node.keys))

Object_process_value(node, P, st) == Hook("process_object", node, P, st)

ObjectLoop(node, order, P, st) ==
    IF order = <<>> THEN Ret(P, Ok)
    ELSE LET k == node.keys[Head(order)]
             v == node.kids[Head(order)]
             r == process_value(v, P, enter_borrowed(st, k, inner_attrs(st), for_field(v)))
         IN  IF r.res.ok THEN ObjectLoop(node, Tail(order), r.P, st) ELSE r

Object_process_child_values(node, P, st) == ObjectLoop(node, iter_mut(node), P, st)

\* variant: Box<T> keeps the default process_value as well
Box_process_value_default(node, P, st) == T_process_child_values(node, P, st)

\* impls.rs:229: Box<T> forwards process_value and keeps the default
\* process_child_values
Box_process_value(node, P, st) == T_process_value(node.kids[1], P, st)

\* variant: index is not counted up between the slots
TupleLoop_no_increment(kids, index, P, st) ==
    IF index >= Len(kids) THEN Ret(P, Ok)
    ELSE LET slot == kids[index + 1]
             r == process_value(slot, P, enter_index(st, 0, inner_attrs(st), for_field(slot)))
         IN  IF r.res.ok THEN TupleLoop(kids, index + 1, r.P, st) ELSE r

\* impls.rs:242-267: process_tuple! unrolls one process_value per slot and
\* counts index up from 0; process_value is the trait default
TupleLoop(kids, index, P, st) ==
    IF index >= Len(kids) THEN Ret(P, Ok)
    ELSE LET slot == kids[index + 1]
             r == process_value(slot, P,
                      enter_index(st, index, inner_attrs(st), for_field(slot)))
         IN  IF r.res.ok THEN TupleLoop(kids, index + 1, r.P, st) ELSE r

Tuple_process_child_values(node, P, st) == TupleLoop(node.kids, 0, P, st)

\* variant: the action of the per-kind dispatch is dropped
Value_process_value_swallow(node, P, st) ==
    LET v  == node.kids[1]
        r1 == Hook("process_value", node, P, st)
    IN  IF ~r1.res.ok THEN r1
        ELSE LET state == enter_nothing(st, attrs(st))
                 r2 == before_process(v, r1.P, state)
             IN  IF ~r2.res.ok THEN r2
                 ELSE LET r3 == T_process_value(v, r2.P, state)
                          r4 == after_process(v, r3.P, state)
                      IN  IF ~r4.res.ok THEN r4 ELSE Ret(r4.P, Ok)

\* variant: after_process is not called
Value_process_value_no_after(node, P, st) ==
    LET v  == node.kids[1]
        r1 == Hook("process_value", node, P, st)
    IN  IF ~r1.res.ok THEN r1
        ELSE LET state == enter_nothing(st, attrs(st))
                 r2 == before_process(v, r1.P, state)
             IN  IF ~r2.res.ok THEN r2
                 ELSE T_process_value(v, r2.P, state)

\* variant: before_process and after_process both precede the per-kind
\* dispatch
Value_process_value_brackets_first(node, P, st) ==
    LET v  == node.kids[1]
        r1 == Hook("process_value", node, P, st)
    IN  IF ~r1.res.ok THEN r1
        ELSE LET state == enter_nothing(st, attrs(st))
                 r2 == before_process(v, r1.P, state)
             IN  IF ~r2.res.ok THEN r2
                 ELSE LET r3 == after_process(v, r2.P, state)
                      IN  IF ~r3.res.ok THEN r3
                          ELSE T_process_value(v, r3.P, state)

\* variant: the state is derived first and the dynamic-value hook is called
\* with it, after before_process
Value_process_value_hook_inside(node, P, st) ==
    LET v  == node.kids[1]
        state == enter_nothing(st, attrs(st))
        r2 == before_process(v, P, state)
    IN  IF ~r2.res.ok THEN r2
        ELSE LET r1 == Hook("process_value", node, r2.P, state)
             IN  IF ~r1.res.ok THEN r1
                 ELSE LET r3 == T_process_value(v, r1.P, state)
                      IN  IF ~r3.res.ok THEN r3
                          ELSE after_process(v, r3.P, state)

\* variant: the derived state falls back to the default field policy
Value_process_value_default_attrs(node, P, st) ==
    LET v  == node.kids[1]
        r1 == Hook("process_value", node, P, st)
    IN  IF ~r1.res.ok THEN r1
        ELSE LET state == enter_nothing(st, DefaultAttrs)
                 r2 == before_process(v, r1.P, state)
             IN  IF ~r2.res.ok THEN r2
                 ELSE LET r3 == T_process_value(v, r2.P, state)
                      IN  IF ~r3.res.ok THEN r3
                          ELSE after_process(v, r3.P, state)

\* variant: after_process is called also when the per-kind dispatch returned
\* an action, which is returned afterwards
Value_process_value_after_always(node, P, st) ==
    LET v  == node.kids[1]
        r1 == Hook("process_value", node, P, st)
    IN  IF ~r1.res.ok THEN r1
        ELSE LET state == enter_nothing(st, attrs(st))
                 r2 == before_process(v, r1.P, state)
             IN  IF ~r2.res.ok THEN r2
                 ELSE LET r3 == T_process_value(v, r2.P, state)
                          r4 == after_process(v, r3.P, state)
                      IN  IF ~r3.res.ok THEN Ret(r4.P, r3.res) ELSE r4

\* impls.rs:295-326: the dynamic value
Value_process_value(node, P, st) ==
    LET v  == node.kids[1]
        r1 == Hook("process_value", node, P, st)
    IN  IF ~r1.res.ok THEN r1
        ELSE LET state == enter_nothing(st, attrs(st))
                 r2 == before_process(v, r1.P, state)
             IN  IF ~r2.res.ok THEN r2
                 ELSE LET r3 == T_process_value(v, r2.P, state)
                      IN  IF ~r3.res.ok THEN r3
                          ELSE LET r4 == after_process(v, r3.P, state)
                               IN  IF ~r4.res.ok THEN r4 ELSE Ret(r4.P, Ok)

\* derive(ProcessValue) on the newtype HeaderName, as test_simple_newtype
\* (test_derive.rs:77) observes it: the type's own hook, then the wrapped
\* String with a state that adds no path segment
HeaderName_process_value(node, P, st) ==
    LET r1 == Hook("process_header_name", node, P, st)
    IN  IF ~r1.res.ok THEN r1
        ELSE T_process_value(node.kids[1], r1.P, enter_nothing(st, attrs(st)))

\* the impl selected by the static type of the value
T_process_value(node, P, st) ==
    CASE node.ty = "String" -> String_process_value(node, P, st)
      [] node.ty = "Bool" -> bool_process_value(node, P, st)
      [] node.ty = "U64" -> u64_process_value(node, P, st)
      [] node.ty = "I64" -> i64_process_value(node, P, st)
      [] node.ty = "F64" -> f64_process_value(node, P, st)
      [] node.ty = "Array" -> Array_process_value(node, P, st)
      [] node.ty = "Object" -> Object_process_value(node, P, st)
      [] node.ty = "Box" -> Box_process_value(node, P, st)
      [] node.ty = "Value" -> Value_process_value(node, P, st)
      [] node.ty = "HeaderName" -> HeaderName_process_value(node, P, st)
      [] node.ty \in {"Uuid", "Tuple"} -> default_process_value(node, P, st)

T_process_child_values(node, P, st) ==
    CASE node.ty = "Array" -> Array_process_child_values(node, P, st)
      [] node.ty = "Object" -> Object_process_child_values(node, P, st)
      [] node.ty = "Tuple" -> Tuple_process_child_values(node, P, st)
      [] OTHER -> default_process_child_values(node, P, st)

\* processor::process_value(annotated, processor, state), the entry point
\* the driver and every collection call for an Annotated value: it hands the
\* value to its impl and returns what that returns.  The call itself is
\* noted in the log as a "visit" of the position, with the state passed.
Visit(P, node, st) ==
    [P EXCEPT !.log = Append(@, [kind |-> "visit", name |-> node.ty,
                                 path |-> state_path(st), state |-> st]),
              !.seen = Append(@, st)]

process_value(node, P, st) == T_process_value(node, Visit(P, node, st), st)

\* Processor::process_other (traits.rs:118-136), the default: one
\* process_value per entry of the bag, `?` after each
RECURSIVE OtherLoop(_, _, _, _)
\* the `?` after an entry's process_value: r is what the call returned
OtherTry(other, order, r, st) ==
    IF r.res.ok THEN OtherLoop(other, Tail(order), r.P, st) ELSE r

\* process_value for the entry (key, value)
OtherEntry(key, value, P, st) ==
    process_value(value, P, enter_borrowed(st, key, inner_attrs(st), for_field(value)))

\* variant: the result of an entry's process_value is dropped
OtherLoop_no_stop(other, order, P, st) ==
    IF order = <<>> THEN Ret(P, Ok)
    ELSE OtherLoop(other, Tail(order),
                   OtherEntry(other.keys[Head(order)], other.kids[Head(order)], P, st).P, st)

OtherLoop(other, order, P, st) ==
    IF order = <<>> THEN Ret(P, Ok)
    ELSE OtherTry(other, order,
                  OtherEntry(other.keys[Head(order)], other.kids[Head(order)], P, st), st)

process_other(other, P, st) == OtherLoop(other, iter_mut(other), P, st)

\* ----------------------------------------------------- traversal inputs
Val(inner) == Node("Value", <<inner>>, <<>>)
Arr(kids) == Node("Array", kids, <<>>)
Obj(keys, kids) == Node("Object", kids, keys)
Tup(kids) == Node("Tuple", kids, <<>>)
Box(inner) == Node("Box", <<inner>>, <<>>)
HeaderName == Node("HeaderName", <<Leaf("String")>>, <<>>)

\* the key sequences (insertion orders) used for an Object of n entries
KeySeqs(n) ==
    {ks \in [1..n -> {KeyAlphabet[i] : i \in 1..n}] : \A i, j \in 1..n : i # j => ks[i] # ks[j]}
ObjsOf(kidSeqs) ==
    UNION {{Obj(ks, s) : ks \in KeySeqs(Len(s))} : s \in kidSeqs}

Scalars == {Leaf(t) : t \in ScalarTypes}
DynScalars == {Val(x) : x \in Scalars}
\* elements of the collections
DynElems == {Val(Leaf("String")), Val(Leaf("I64"))}
StrSeqs == SeqsUpTo({Leaf("String")}, MaxLen)
DynSeqs == SeqsUpTo(DynElems, MaxLen)
\* a dynamic value holding a collection of dynamic strings
DynNested ==
    {Val(Arr(s)) : s \in SeqsUpTo({Val(Leaf("String"))}, MaxLen)}
    \cup {Val(node) : node \in ObjsOf(SeqsUpTo({Val(Leaf("String"))}, MaxLen) \ {<<>>})}
NestedSeqs == SeqsUpTo({Val(Leaf("String"))} \cup DynNested, MaxLen)
TupleSeqs ==
    SeqsUpTo({Leaf("String"), Val(Leaf("String")), Arr(<<Leaf("String")>>)}, MaxLen) \ {<<>>}

Trees ==
    Scalars \cup DynScalars \cup {Leaf("Uuid"), HeaderName}
    \cup {Arr(s) : s \in StrSeqs \cup DynSeqs \cup NestedSeqs}
    \cup ObjsOf(StrSeqs \cup DynSeqs)
    \cup {Val(Arr(s)) : s \in DynSeqs \cup NestedSeqs}
    \cup {Val(node) : node \in ObjsOf(DynSeqs)}
    \cup {Tup(s) : s \in TupleSeqs}
    \cup {Box(x) : x \in {Leaf("String"), Val(Leaf("String")), Leaf("Uuid")}
                        \cup {Arr(s) : s \in DynSeqs}}
    \cup {Arr(<<Box(Leaf("String"))>>), Arr(<<HeaderName, HeaderName>>)}
    \cup {Arr(<<Leaf("Uuid")>>), Tup(<<Leaf("Uuid"), Tup(<<Leaf("String")>>)>>)}

\* ProcessingState::root(), and root().enter_static("foo", None, None) as
\* in the tests
Roots ==
    {StateRoot, enter_static(StateRoot, "foo", DefaultAttrs, {}),
     enter_static(StateRoot, "foo", PiiAttrs, {"Array", "Object"})}

Processors ==
    {[log |-> <<>>, seen |-> <<>>, n |-> 0, abortAt |-> 0, action |-> Ok,
      over |-> AllHooks]}
    \cup {[log |-> <<>>, seen |-> <<>>, n |-> 0, abortAt |-> k, action |-> a,
           over |-> AllHooks] :
            k \in 1..MaxAbort, a \in ProcessingAction}

\* the hooks overridden by processors that leave the others at the default:
\* none, the string hook, the hooks of the RecordingProcessor
\* (test_derive.rs:9-46), and a collection hook with before_process
Overrides ==
    {{}, {"process_string"}, {"process_value", "process_string", "process_header_name"},
     {"process_array", "process_string", "before_process"}}

NoEvent == "-"

\* ----------------------------------------------------------- traversal
Init ==
    /\ tree \in Trees
    /\ root \in Roots
    /\ proc \in Processors
    /\ result = Ok
    /\ phase = "init"
    /\ event = NoEvent /\ path = <<>> /\ got = NoEvent
    /\ iter = NoEvent /\ yielded = <<>>

\* the driver runs the processor over the annotated value
Dispatch ==
    /\ phase = "init"
    /\ LET r == process_value(tree, proc, root)
       IN  proc' = r.P /\ result' = r.res
    /\ phase' = "dispatched"
    /\ UNCHANGED <<tree, root, event, path, got, iter, yielded>>

\* the children-recursion operation of the value is invoked on its own
DirectChildren ==
    /\ phase = "init"
    /\ LET r == T_process_child_values(tree, proc, root)
       IN  proc' = r.P /\ result' = r.res
    /\ phase' = "children"
    /\ UNCHANGED <<tree, root, event, path, got, iter, yielded>>

\* ProcessValue::process_value of the value is called directly
DispatchImpl ==
    /\ phase = "init"
    /\ LET r == T_process_value(tree, proc, root)
       IN  proc' = r.P /\ result' = r.res
    /\ phase' = "impl"
    /\ UNCHANGED <<tree, root, event, path, got, iter, yielded>>

\* ProcessValue::process_value of the value is called with a processor
\* that overrides only some hooks
DispatchPartial ==
    /\ phase = "init"
    /\ \E over \in Overrides :
          LET r == T_process_value(tree, [proc EXCEPT !.over = over], root)
          IN  proc' = r.P /\ result' = r.res
    /\ phase' = "partial"
    /\ UNCHANGED <<tree, root, event, path, got, iter, yielded>>

\* an Object<Value>, the type of an additional-properties bag
IsBag(node) == node.ty = "Object" /\ \A k \in DOMAIN node.kids : node.kids[k].ty = "Value"

\* the processor's process_other is called on a bag
ProcessOther ==
    /\ phase = "init"
    /\ IsBag(tree)
    /\ LET r == process_other(tree, proc, root)
       IN  proc' = r.P /\ result' = r.res
    /\ phase' = "other"
    /\ UNCHANGED <<tree, root, event, path, got, iter, yielded>>

Next == Dispatch \/ DispatchImpl \/ DirectChildren

Spec == Init /\ [][Next]_vars

\* the operations of a processor that leaves hooks at their default
NextDefaults == DispatchPartial \/ ProcessOther

SpecDefaults == Init /\ [][NextDefaults]_vars

\* ======================================================= the getter
\* A string that the getter takes apart (a path, a key) is the sequence of
\* its pieces between the dots: "a.b" is <<"a", "b">>, "" is <<"">>,
\* "a." is <<"a", "">>.  Every string has exactly one such sequence.
NoStr == [some |-> FALSE, s |-> <<>>]
SomeStr(s) == [some |-> TRUE, s |-> s]

\* str::strip_prefix with a prefix that ends in a dot; pre lists the pieces
\* of the prefix before each of its dots ("request.headers." is
\* <<"request", "headers">>)
strip_prefix(s, pre) ==
    IF Len(s) > Len(pre) /\ SubSeq(s, 1, Len(pre)) = pre
    THEN SomeStr(SubSeq(s, Len(pre) + 1, Len(s)))
    ELSE NoStr

\* str::strip_suffix(".value")
strip_suffix_value(s) ==
    IF Len(s) >= 2 /\ Last(s) = "value" THEN SomeStr(SubSeq(s, 1, Len(s) - 1)) ELSE NoStr

\* str::split_once('.'): the piece before the first dot and the remainder
split_once(s) ==
    IF Len(s) >= 2 THEN [some |-> TRUE, a |-> <<Head(s)>>, b |-> Tail(s)]
    ELSE [some |-> FALSE, a |-> <<>>, b |-> <<>>]

\* ------------------------------------------------------- event values
\* An Annotated<T> is Absent or holds a value.  A scalar is [t, v] with v
\* its text; a struct, a map or a Value::Object is [t, f] with f the fields
\* or entries (a struct field that is not listed is an empty Annotated, as
\* Default::default() leaves it); a context is [t, variant, f].
Absent == [t |-> "absent"]
S(x) == [t |-> "String", v |-> x]
B(x) == [t |-> "Bool", v |-> x]
I(x) == [t |-> "I64", v |-> x]
U(x) == [t |-> "U64", v |-> x]
F(x) == [t |-> "F64", v |-> x]
H(x) == [t |-> "HexId", v |-> x]
Ts(n) == [t |-> "Timestamp", n |-> n]
NoFields == [x \in {} |-> Absent]
Struct(f) == [t |-> "struct", f |-> f]
Context(variant, f) == [t |-> "ctx", variant |-> variant, f |-> f]
VObject(f) == [t |-> "Object", f |-> f]
VArray == [t |-> "Array", f |-> NoFields]
Field(v, name) == IF v.t # "absent" /\ name \in DOMAIN v.f THEN v.f[name] ELSE Absent

\* Val, and what get_value returns: Some(val) or None.  arm notes the match
\* arm that produced the result; tag "Panic" stands for a panic.
ValKinds == {"String", "Bool", "I64", "U64", "F64", "HexId", "Array", "Object"}
NoVal == [k |-> "", v |-> ""]
SomeVal(val, arm) == [tag |-> "Some", val |-> val, arm |-> arm]
NoneVal(arm) == [tag |-> "None", val |-> NoVal, arm |-> arm]
Panic(arm) == [tag |-> "Panic", val |-> NoVal, arm |-> arm]
\* the From<..> for Val conversions behind .into()
into_val(x) == [k |-> x.t, v |-> IF x.t \in {"Array", "Object"} THEN "" ELSE x.v]

\* ------------------------------------------------ the exact-match arms
\* one step of an accessor chain: a struct field (.value()?.field), a
\* default context (self.context::<C>()?, which is None unless the entry
\* under C's key is of C's variant), or a map entry (.get(key)?)
Fld(name) == [s |-> "field", n |-> name, v |-> ""]
Ctx(key, variant) == [s |-> "ctx", n |-> key, v |-> variant]
Get(key) == [s |-> "get", n |-> key, v |-> ""]
Arm(p, chain, conv) == [p |-> p, chain |-> chain, conv |-> conv]

step(x, st) ==
    IF x.t = "absent" THEN Absent
    ELSE IF st.s = "ctx"
         THEN LET c == Field(x, st.n)
              IN  IF c.t = "ctx" /\ c.variant = st.v THEN c ELSE Absent
         ELSE Field(x, st.n)

RECURSIVE walk(_, _)
walk(x, chain) == IF chain = <<>> THEN x ELSE walk(step(x, Head(chain)), Tail(chain))

\* event.rs:637-771, one entry per string-literal arm except "duration"
ExactArms ==
    {
      Arm(<<"level">>,
          <<Fld("level")>>, "plain"),
      Arm(<<"release">>,
          <<Fld("release")>>, "plain"),
      Arm(<<"dist">>,
          <<Fld("dist")>>, "plain"),
      Arm(<<"environment">>,
          <<Fld("environment")>>, "plain"),
      Arm(<<"transaction">>,
          <<Fld("transaction")>>, "plain"),
      Arm(<<"logger">>,
          <<Fld("logger")>>, "plain"),
      Arm(<<"platform">>,
          <<Fld("platform")>>, "unwrap_or_other"),
      Arm(<<"logentry", "formatted">>,
          <<Fld("logentry"), Fld("formatted")>>, "plain"),
      Arm(<<"logentry", "message">>,
          <<Fld("logentry"), Fld("message")>>, "plain"),
      Arm(<<"user", "email">>,
          <<Fld("user"), Fld("email")>>, "or_none"),
      Arm(<<"user", "id">>,
          <<Fld("user"), Fld("id")>>, "or_none"),
      Arm(<<"user", "ip_address">>,
          <<Fld("user"), Fld("ip_address")>>, "plain"),
      Arm(<<"user", "name">>,
          <<Fld("user"), Fld("name")>>, "plain"),
      Arm(<<"user", "segment">>,
          <<Fld("user"), Fld("segment")>>, "or_none"),
      Arm(<<"user", "geo", "city">>,
          <<Fld("user"), Fld("geo"), Fld("city")>>, "plain"),
      Arm(<<"user", "geo", "country_code">>,
          <<Fld("user"), Fld("geo"), Fld("country_code")>>, "plain"),
      Arm(<<"user", "geo", "region">>,
          <<Fld("user"), Fld("geo"), Fld("region")>>, "plain"),
      Arm(<<"user", "geo", "subdivision">>,
          <<Fld("user"), Fld("geo"), Fld("subdivision")>>, "plain"),
      Arm(<<"request", "method">>,
          <<Fld("request"), Fld("method")>>, "plain"),
      Arm(<<"request", "url">>,
          <<Fld("request"), Fld("url")>>, "plain"),
      Arm(<<"transaction", "source">>,
          <<Fld("transaction_info"), Fld("source")>>, "plain"),
      Arm(<<"sdk", "name">>,
          <<Fld("client_sdk"), Fld("name")>>, "plain"),
      Arm(<<"sdk", "version">>,
          <<Fld("client_sdk"), Fld("version")>>, "plain"),
      Arm(<<"sentry_user">>,
          <<Fld("user"), Fld("sentry_user")>>, "plain"),
      Arm(<<"contexts", "app", "in_foreground">>,
          <<Fld("contexts"), Ctx("app", "App"), Fld("in_foreground")>>, "plain"),
      Arm(<<"contexts", "app", "device_app_hash">>,
          <<Fld("contexts"), Ctx("app", "App"), Fld("device_app_hash")>>, "plain"),
      Arm(<<"contexts", "device", "arch">>,
          <<Fld("contexts"), Ctx("device", "Device"), Fld("arch")>>, "plain"),
      Arm(<<"contexts", "device", "battery_level">>,
          <<Fld("contexts"), Ctx("device", "Device"), Fld("battery_level")>>, "plain"),
      Arm(<<"contexts", "device", "brand">>,
          <<Fld("contexts"), Ctx("device", "Device"), Fld("brand")>>, "plain"),
      Arm(<<"contexts", "device", "charging">>,
          <<Fld("contexts"), Ctx("device", "Device"), Fld("charging")>>, "plain"),
      Arm(<<"contexts", "device", "family">>,
          <<Fld("contexts"), Ctx("device", "Device"), Fld("family")>>, "plain"),
      Arm(<<"contexts", "device", "model">>,
          <<Fld("contexts"), Ctx("device", "Device"), Fld("model")>>, "plain"),
      Arm(<<"contexts", "device", "locale">>,
          <<Fld("contexts"), Ctx("device", "Device"), Fld("locale")>>, "plain"),
      Arm(<<"contexts", "device", "online">>,
          <<Fld("contexts"), Ctx("device", "Device"), Fld("online")>>, "plain"),
      Arm(<<"contexts", "device", "orientation">>,
          <<Fld("contexts"), Ctx("device", "Device"), Fld("orientation")>>, "plain"),
      Arm(<<"contexts", "device", "name">>,
          <<Fld("contexts"), Ctx("device", "Device"), Fld("name")>>, "plain"),
      Arm(<<"contexts", "device", "screen_density">>,
          <<Fld("contexts"), Ctx("device", "Device"), Fld("screen_density")>>, "plain"),
      Arm(<<"contexts", "device", "screen_dpi">>,
          <<Fld("contexts"), Ctx("device", "Device"), Fld("screen_dpi")>>, "plain"),
      Arm(<<"contexts", "device", "screen_width_pixels">>,
          <<Fld("contexts"), Ctx("device", "Device"), Fld("screen_width_pixels")>>, "plain"),
      Arm(<<"contexts", "device", "screen_height_pixels">>,
          <<Fld("contexts"), Ctx("device", "Device"), Fld("screen_height_pixels")>>, "plain"),
      Arm(<<"contexts", "device", "simulator">>,
          <<Fld("contexts"), Ctx("device", "Device"), Fld("simulator")>>, "plain"),
      Arm(<<"contexts", "gpu", "vendor_name">>,
          <<Fld("contexts"), Ctx("gpu", "Gpu"), Fld("vendor_name")>>, "plain"),
      Arm(<<"contexts", "gpu", "name">>,
          <<Fld("contexts"), Ctx("gpu", "Gpu"), Fld("name")>>, "plain"),
      Arm(<<"contexts", "monitor", "id">>,
          <<Fld("contexts"), Ctx("monitor", "Monitor"), Get("id")>>, "plain"),
      Arm(<<"contexts", "monitor", "slug">>,
          <<Fld("contexts"), Ctx("monitor", "Monitor"), Get("slug")>>, "plain"),
      Arm(<<"contexts", "os">>,
          <<Fld("contexts"), Ctx("os", "Os"), Fld("os")>>, "plain"),
      Arm(<<"contexts", "os", "build">>,
          <<Fld("contexts"), Ctx("os", "Os"), Fld("build")>>, "plain"),
      Arm(<<"contexts", "os", "kernel_version">>,
          <<Fld("contexts"), Ctx("os", "Os"), Fld("kernel_version")>>, "plain"),
      Arm(<<"contexts", "os", "name">>,
          <<Fld("contexts"), Ctx("os", "Os"), Fld("name")>>, "plain"),
      Arm(<<"contexts", "os", "version">>,
          <<Fld("contexts"), Ctx("os", "Os"), Fld("version")>>, "plain"),
      Arm(<<"contexts", "os", "rooted">>,
          <<Fld("contexts"), Ctx("os", "Os"), Fld("rooted")>>, "plain"),
      Arm(<<"contexts", "browser">>,
          <<Fld("contexts"), Ctx("browser", "Browser"), Fld("browser")>>, "plain"),
      Arm(<<"contexts", "browser", "name">>,
          <<Fld("contexts"), Ctx("browser", "Browser"), Fld("name")>>, "plain"),
      Arm(<<"contexts", "browser", "version">>,
          <<Fld("contexts"), Ctx("browser", "Browser"), Fld("version")>>, "plain"),
      Arm(<<"contexts", "profile", "profile_id">>,
          <<Fld("contexts"), Ctx("profile", "Profile"), Fld("profile_id")>>, "plain"),
      Arm(<<"contexts", "device", "uuid">>,
          <<Fld("contexts"), Ctx("device", "Device"), Fld("uuid")>>, "plain"),
      Arm(<<"contexts", "trace", "status">>,
          <<Fld("contexts"), Ctx("trace", "Trace"), Fld("status")>>, "plain"),
      Arm(<<"contexts", "trace", "op">>,
          <<Fld("contexts"), Ctx("trace", "Trace"), Fld("op")>>, "plain"),
      Arm(<<"contexts", "response", "status_code">>,
          <<Fld("contexts"), Ctx("response", "Response"), Fld("status_code")>>, "plain"),
      Arm(<<"contexts", "unreal", "crash_type">>,
          <<Fld("contexts"), Ctx("unreal", "Other"), Get("crash_type")>>, "plain"),
      Arm(<<"contexts", "runtime">>,
          <<Fld("contexts"), Ctx("runtime", "Runtime"), Fld("runtime")>>, "plain"),
      Arm(<<"contexts", "runtime", "name">>,
          <<Fld("contexts"), Ctx("runtime", "Runtime"), Fld("name")>>, "plain")
    }


ExactPaths == {a.p : a \in ExactArms}
ArmOf(rest) == CHOOSE a \in ExactArms : a.p = rest

\* event.rs:626: or_none
or_none(x) == IF x.t = "absent" \/ x.v = "" THEN Absent ELSE x

\* variant: the "dist" arm falls back to the empty string
exact_arm_dist_default(ev, a) ==
    LET x == walk(ev, a.chain)
    IN  CASE a.conv = "or_none" ->
               IF or_none(x).t = "absent" THEN NoneVal("exact")
               ELSE SomeVal(into_val(x), "exact")
          [] a.conv = "unwrap_or_other" ->
               IF x.t = "absent" THEN SomeVal(into_val(S("other")), "exact")
               ELSE SomeVal(into_val(x), "exact")
          [] a.p = <<"dist">> ->
               IF x.t = "absent" THEN SomeVal(into_val(S("")), "exact")
               ELSE SomeVal(into_val(x), "exact")
          [] OTHER ->
               IF x.t = "absent" THEN NoneVal("exact") ELSE SomeVal(into_val(x), "exact")

\* variant: or_none(..)? on the user's name as well
exact_arm_name_or_none(ev, a) ==
    LET x == walk(ev, a.chain)
    IN  CASE a.conv = "or_none" \/ a.p = <<"user", "name">> ->
               IF or_none(x).t = "absent" THEN NoneVal("exact")
               ELSE SomeVal(into_val(x), "exact")
          [] a.conv = "unwrap_or_other" ->
               IF x.t = "absent" THEN SomeVal(into_val(S("other")), "exact")
               ELSE SomeVal(into_val(x), "exact")
          [] OTHER ->
               IF x.t = "absent" THEN NoneVal("exact") ELSE SomeVal(into_val(x), "exact")

\* variant: a plain `?` on the platform
exact_arm_platform_plain(ev, a) ==
    LET x == walk(ev, a.chain)
    IN  CASE a.conv = "or_none" ->
               IF or_none(x).t = "absent" THEN NoneVal("exact")
               ELSE SomeVal(into_val(x), "exact")
          [] OTHER ->
               IF x.t = "absent" THEN NoneVal("exact") ELSE SomeVal(into_val(x), "exact")

\* the right-hand side of an exact arm: the chain with `?` after every
\* hop, then or_none(..)?, unwrap_or("other") or a plain `?`
exact_arm(ev, a) ==
    LET x == walk(ev, a.chain)
    IN  CASE a.conv = "or_none" ->
               IF or_none(x).t = "absent" THEN NoneVal("exact")
               ELSE SomeVal(into_val(x), "exact")
          [] a.conv = "unwrap_or_other" ->
               IF x.t = "absent" THEN SomeVal(into_val(S("other")), "exact")
               ELSE SomeVal(into_val(x), "exact")
          [] OTHER ->
               IF x.t = "absent" THEN NoneVal("exact") ELSE SomeVal(into_val(x), "exact")

\* time::chrono_to_positive_millis: the milliseconds of a duration, 0 for
\* a negative one (timestamps are counted in milliseconds here)
chrono_to_positive_millis(d) == IF d > 0 THEN d ELSE 0

\* variant: the event type is not looked at
duration_arm_any_type(ev) ==
    LET start == Field(ev, "start_timestamp")
        end   == Field(ev, "timestamp")
    IN  IF start.t = "absent" \/ end.t = "absent" THEN NoneVal("exact")
        ELSE IF start.n <= end.n
             THEN SomeVal(into_val(F(ToString(chrono_to_positive_millis(end.n - start.n)))),
                          "exact")
             ELSE NoneVal("exact")

\* variant: the guard is start < end
duration_arm_strict(ev) ==
    LET start == Field(ev, "start_timestamp")
        end   == Field(ev, "timestamp")
    IN  IF start.t = "absent" \/ end.t = "absent" THEN NoneVal("exact")
        ELSE IF start.n < end.n /\ Field(ev, "ty") = S("transaction")
             THEN SomeVal(into_val(F(ToString(chrono_to_positive_millis(end.n - start.n)))),
                          "exact")
             ELSE NoneVal("exact")

\* "duration" (event.rs:774-782)
duration_arm(ev) ==
    LET start == Field(ev, "start_timestamp")
        end   == Field(ev, "timestamp")
    IN  IF start.t = "absent" \/ end.t = "absent" THEN NoneVal("exact")
        ELSE IF start.n <= end.n /\ Field(ev, "ty") = S("transaction")
             THEN SomeVal(into_val(F(ToString(chrono_to_positive_millis(end.n - start.n)))),
                          "exact")
             ELSE NoneVal("exact")

\* --------------------------------------------------- the data bags
\* sentry_release_parser::Release::parse and its accessors, on the release
\* strings used here
Release_parse(raw) ==
    CASE raw = "1.1.1" ->
           [ok |-> TRUE, package |-> Absent, build_hash |-> Absent, version |-> S("1.1.1")]
      [] raw = "pkg@1.2.3+a1b2c3d" ->
           [ok |-> TRUE, package |-> S("pkg"), build_hash |-> S("a1b2c3d"), version |-> S("1.2.3")]
      [] raw = "a1b2c3d" ->
           [ok |-> TRUE, package |-> Absent, build_hash |-> Absent, version |-> Absent]
      [] OTHER ->
           [ok |-> FALSE, package |-> Absent, build_hash |-> Absent, version |-> Absent]

\* event.rs:597: parse_release, Absent for None
parse_release(ev) ==
    LET r == Field(ev, "release")
    IN  IF r.t = "absent" THEN Absent
        ELSE IF Release_parse(r.v).ok THEN Struct(Release_parse(r.v)) ELSE Absent

\* event.rs:604: measurement(name); the keys of the map are strings, kept
\* as their pieces
measurement_in(ms, name) == Field(Field(ms, name), "value")
measurement(ev, name) == measurement_in(Field(ev, "measurements"), name)

\* event.rs:610: breakdown(breakdown, measurement)
breakdown(ev, bd, name) == measurement_in(Field(Field(ev, "breakdowns"), bd), name)

\* event.rs:578-594: extra_at(path)
RECURSIVE extra_descend(_, _)
\* variant: a value that is not an Object ends the descent and is returned
extra_descend_stop(value, keys) ==
    IF keys = <<>> THEN value
    ELSE IF value.t = "Object"
         THEN LET next == Field(value, Head(keys))
              IN  IF next.t = "absent" THEN Absent ELSE extra_descend(next, Tail(keys))
         ELSE value

extra_descend(value, keys) ==
    IF keys = <<>> THEN value
    ELSE IF value.t = "Object"
         THEN LET next == Field(value, Head(keys))
              IN  IF next.t = "absent" THEN Absent ELSE extra_descend(next, Tail(keys))
         ELSE Absent

extra_at(ev, p) ==
    LET top == Field(Field(ev, "extra"), Head(p))
    IN  IF top.t = "absent" THEN Absent ELSE extra_descend(top, Tail(p))

\* a PairList (Tags, Headers): [t, items], each item [present, key, val]
\* with key NoStr or SomeStr(pieces) and val an Annotated string
Pairs(items) == [t |-> "pairs", items |-> items]
Pair(key, val) == [present |-> TRUE, key |-> key, val |-> val]
NoPair == [present |-> FALSE, key |-> NoStr, val |-> Absent]

\* Tags::get(key): the value of the first entry with this key
RECURSIVE pairs_get(_, _)
pairs_get(items, key) ==
    IF items = <<>> THEN Absent
    ELSE IF Head(items).present /\ Head(items).key = SomeStr(key) THEN Head(items).val
         ELSE pairs_get(Tail(items), key)

Tags_get(tags, key) == IF tags.t = "absent" THEN Absent ELSE pairs_get(tags.items, key)

\* u8::to_ascii_lowercase over a piece of a header name
to_ascii_lowercase(x) ==
    CASE x \in {"USER-AGENT", "User-Agent"} -> "user-agent"
      [] x \in {"ACCEPT", "Accept"} -> "accept"
      [] OTHER -> x
eq_ignore_ascii_case(a, b) ==
    /\ Len(a) = Len(b)
    /\ \A i \in DOMAIN a : to_ascii_lowercase(a[i]) = to_ascii_lowercase(b[i])

\* Headers::get_header(name): the value of the first header whose name
\* equals name ignoring ASCII case
RECURSIVE headers_find(_, _)
headers_find(items, name) ==
    IF items = <<>> THEN Absent
    ELSE IF Head(items).present /\ Head(items).key.some
            /\ eq_ignore_ascii_case(Head(items).key.s, name)
         THEN Head(items).val
         ELSE headers_find(Tail(items), name)

get_header(headers, name) ==
    IF headers.t = "absent" THEN Absent ELSE headers_find(headers.items, name)

\* event.rs:558-572: user_agent(); the loop over the headers returns the
\* value of the first item that has an entry and a key equal to
\* "user-agent" ignoring ASCII case, Absent for None
RECURSIVE user_agent_loop(_)
\* variant: a matching header without a value is passed over
user_agent_loop_skip_empty(items) ==
    IF items = <<>> THEN Absent
    ELSE IF /\ Head(items).present
            /\ Head(items).key.some
            /\ eq_ignore_ascii_case(Head(items).key.s, <<"user-agent">>)
            /\ Head(items).val.t # "absent"
         THEN Head(items).val
         ELSE user_agent_loop(Tail(items))

user_agent_loop(items) ==
    IF items = <<>> THEN Absent
    ELSE IF Head(items).present
         THEN IF Head(items).key.some
              THEN IF eq_ignore_ascii_case(Head(items).key.s, <<"user-agent">>)
                   THEN Head(items).val
                   ELSE user_agent_loop(Tail(items))
              ELSE user_agent_loop(Tail(items))
         ELSE user_agent_loop(Tail(items))

user_agent(ev) ==
    LET headers == Field(Field(ev, "request"), "headers")
    IN  IF headers.t = "absent" THEN Absent ELSE user_agent_loop(headers.items)

\* ------------------------------------------------ the catch-all arm
OptVal(x, arm) == IF x.t = "absent" THEN NoneVal(arm) ELSE SomeVal(into_val(x), arm)

\* event.rs:786-793
release_arm(ev, rest) ==
    LET release == parse_release(ev)
    IN  IF release.t = "absent" THEN NoneVal("release.")
        ELSE CASE rest = <<"build">> -> OptVal(Field(release, "build_hash"), "release.")
               [] rest = <<"package">> -> OptVal(Field(release, "package"), "release.")
               [] rest = <<"version", "short">> -> OptVal(Field(release, "version"), "release.")
               [] OTHER -> NoneVal("release.")

\* event.rs:794-796
measurements_arm(ev, rest) ==
    LET name == strip_suffix_value(rest)
    IN  IF ~name.some THEN NoneVal("measurements.")
        ELSE OptVal(measurement(ev, name.s), "measurements.")

\* variant: the name is unwrapped
breakdowns_arm_unwrap(ev, rest) ==
    LET parts == split_once(rest)
    IN  IF ~parts.some THEN Panic("breakdowns.")
        ELSE OptVal(breakdown(ev, parts.a, parts.b), "breakdowns.")

\* event.rs:797-799
breakdowns_arm(ev, rest) ==
    LET parts == split_once(rest)
    IN  IF ~parts.some THEN NoneVal("breakdowns.")
        ELSE OptVal(breakdown(ev, parts.a, parts.b), "breakdowns.")

\* event.rs:800-801
extra_arm(ev, rest) == OptVal(extra_at(ev, rest), "extra.")

\* event.rs:802-803
tags_arm(ev, rest) == OptVal(Tags_get(Field(ev, "tags"), rest), "tags.")

\* variant: the header is looked up by its exact name, as a tag is
headers_arm_exact(ev, rest) ==
    OptVal(Tags_get(Field(Field(ev, "request"), "headers"), rest), "request.headers.")

\* event.rs:804-810
headers_arm(ev, rest) ==
    OptVal(get_header(Field(Field(ev, "request"), "headers"), rest), "request.headers.")

\* event.rs:785-814: `path => { if let Some(rest) = path.strip_prefix(..) .. }`
dynamic_arm(ev, p) ==
    IF strip_prefix(p, <<"release">>).some
    THEN release_arm(ev, strip_prefix(p, <<"release">>).s)
    ELSE IF strip_prefix(p, <<"measurements">>).some
    THEN measurements_arm(ev, strip_prefix(p, <<"measurements">>).s)
    ELSE IF strip_prefix(p, <<"breakdowns">>).some
    THEN breakdowns_arm(ev, strip_prefix(p, <<"breakdowns">>).s)
    ELSE IF strip_prefix(p, <<"extra">>).some
    THEN extra_arm(ev, strip_prefix(p, <<"extra">>).s)
    ELSE IF strip_prefix(p, <<"tags">>).some
    THEN tags_arm(ev, strip_prefix(p, <<"tags">>).s)
    ELSE IF strip_prefix(p, <<"request", "headers">>).some
    THEN headers_arm(ev, strip_prefix(p, <<"request", "headers">>).s)
    ELSE NoneVal("else")

\* variant: the "release" arm is missing from the match
is_exact_no_release(rest) == rest \in ExactPaths \ {<<"release">>}

\* whether a string-literal arm other than "duration" equals the path
is_exact(rest) == rest \in ExactPaths

\* variant: a path without the namespace is resolved as it is
get_value_bare(ev, p) ==
    LET stripped == IF strip_prefix(p, <<"event">>).some THEN strip_prefix(p, <<"event">>)
                    ELSE SomeStr(p)
    IN  IF is_exact(stripped.s) THEN exact_arm(ev, ArmOf(stripped.s))
        ELSE IF stripped.s = <<"duration">> THEN duration_arm(ev)
        ELSE dynamic_arm(ev, stripped.s)

\* event.rs:634-816: Event::get_value
get_value(ev, p) ==
    LET stripped == strip_prefix(p, <<"event">>)
    IN  IF ~stripped.some THEN NoneVal("")
        ELSE IF is_exact(stripped.s) THEN exact_arm(ev, ArmOf(stripped.s))
        ELSE IF stripped.s = <<"duration">> THEN duration_arm(ev)
        ELSE dynamic_arm(ev, stripped.s)

\* ---------------------------------------------------------- get_iter
\* an Array<T> of the event: [t, items], each item an Annotated<T>
List(items) == [t |-> "list", items |-> items]

\* Option<GetterIter>: None, or an iterator with the items it has left;
\* done notes that next() has returned None
NoIter == [tag |-> "None", rest |-> <<>>, done |-> FALSE]
SomeIter(items) == [tag |-> "Some", rest |-> items, done |-> FALSE]

\* GetterIter::new_annotated(list): an iterator over the items of the list
new_annotated(list) == SomeIter(list.items)

\* variant: a missing list is iterated as an empty one
get_iter_or_empty(ev, p) ==
    LET stripped == strip_prefix(p, <<"event">>)
        values == Field(Field(ev, "exceptions"), "values")
    IN  IF ~stripped.some THEN NoIter
        ELSE IF stripped.s = <<"exception", "values">>
             THEN IF values.t = "absent" THEN SomeIter(<<>>) ELSE new_annotated(values)
             ELSE NoIter

\* event.rs:818-825: Event::get_iter
get_iter(ev, p) ==
    LET stripped == strip_prefix(p, <<"event">>)
    IN  IF ~stripped.some THEN NoIter
        ELSE IF stripped.s = <<"exception", "values">>
             THEN LET exceptions == Field(ev, "exceptions")
                  IN  IF exceptions.t = "absent" THEN NoIter
                      ELSE IF Field(exceptions, "values").t = "absent" THEN NoIter
                      ELSE new_annotated(Field(exceptions, "values"))
             ELSE NoIter

\* ------------------------------------------------------ getter inputs
EmptyEvent == Struct(NoFields)

\* the event of test_field_value_provider_event_filled (event.rs:1109)
FilledEvent ==
    Struct([
        level |-> S("info"),
        exceptions |-> Struct([values |->
                         List(<<Struct([value |-> S("canvas.contentDocument")])>>)]),
        release |-> S("1.1.1"),
        environment |-> S("prod"),
        user |-> Struct([ip_address |-> S("127.0.0.1"), id |-> S("user-id"),
                         segment |-> S("user-seg"), sentry_user |-> S("id:user-id")]),
        client_sdk |-> Struct([name |-> S("sentry-javascript"), version |-> S("1.87.0")]),
        logentry |-> Struct([formatted |-> S("formatted"), message |-> S("message")]),
        request |-> Struct([headers |-> Pairs(<<Pair(SomeStr(<<"user-agent">>), S("Slurp"))>>),
                            url |-> S("https://sentry.io")]),
        transaction |-> S("some-transaction"),
        transaction_info |-> Struct([source |-> S("route")]),
        tags |-> Pairs(<<Pair(SomeStr(<<"custom">>), S("custom-value"))>>),
        contexts |-> Struct([
            device |-> Context("Device",
                [name |-> S("iphone"), family |-> S("iphone-fam"), model |-> S("iphone7,3"),
                 screen_dpi |-> I("560"), screen_width_pixels |-> U("1920"),
                 screen_height_pixels |-> U("1080"), locale |-> S("US"),
                 uuid |-> H("abadcade"), charging |-> B("true")]),
            os |-> Context("Os",
                [name |-> S("iOS"), version |-> S("11.4.2"), kernel_version |-> S("17.4.0")]),
            profile |-> Context("Profile", [profile_id |-> H("8addadfe")]),
            monitor |-> Context("Monitor", [id |-> S("123"), slug |-> S("my_monitor")])])
    ])

\* the extra of test_extra_at (event.rs:1065), with an array and a nested
\* object added
ExtraBag ==
    Struct([a |-> S("string1"), b |-> I("42"),
            c |-> VObject([d |-> S("string2"), e |-> Absent,
                           o |-> VObject([k |-> S("deep"), n |-> Absent])]),
            l |-> VArray])

Measure(x) == Struct([value |-> x])
SeqMap(key, x) == Struct(key :> x)

\* largest timestamp tried
MaxTs == 2
Times == {Absent} \cup {Ts(n) : n \in 0..MaxTs}

\* the exceptions put into a list; each has a value
Exceptions ==
    {Struct([ty |-> S("Exception"), value |-> S("random boring invariant was not met!")]),
     Struct([ty |-> S("ValueError"), value |-> S("something went wrong, help!")])}

\* groups of fields that are set together on top of a base event
Variations ==
    {NoFields}
    \cup {f :> x : f \in {"level", "release", "dist", "environment", "transaction",
                          "logger", "platform"},
                   x \in {Absent, S(""), S("x")}}
    \cup {"release" :> S(x) : x \in {"pkg@1.2.3+a1b2c3d", "a1b2c3d", "1.1.1"}}
    \cup {"user" :> x : x \in {Absent, Struct(NoFields)}}
    \cup {"user" :> Struct(f :> x) :
            f \in {"email", "id", "ip_address", "name", "segment", "sentry_user"},
            x \in {S(""), S("x")}}
    \cup {"user" :> Struct([geo |-> g]) :
            g \in {Absent, Struct(NoFields),
                   Struct([city |-> S("c"), country_code |-> S("AT"), region |-> S("r"),
                           subdivision |-> S("s")])}}
    \cup {"logentry" :> x : x \in {Absent, Struct([message |-> S("m")])}}
    \cup {"client_sdk" :> x : x \in {Absent, Struct([name |-> S("n")])}}
    \cup {"transaction_info" :> x : x \in {Absent, Struct(NoFields)}}
    \cup {"request" :> x : x \in {Absent, Struct(NoFields), Struct([method |-> S("GET")])}}
    \cup {"request" :> Struct([headers |-> h, method |-> S("GET")]) :
            h \in {Absent, Pairs(<<>>),
                   Pairs(<<NoPair, Pair(NoStr, S("v0")),
                           Pair(SomeStr(<<"User-Agent">>), S("v1")),
                           Pair(SomeStr(<<"user-agent">>), S("v2"))>>),
                   Pairs(<<Pair(SomeStr(<<"USER-AGENT">>), Absent),
                           Pair(SomeStr(<<"user-agent">>), S("v2"))>>),
                   Pairs(<<Pair(SomeStr(<<"Accept">>), S("any")),
                           Pair(SomeStr(<<"x", "y">>), S("dotted"))>>)}}
    \cup {"contexts" :> x :
            x \in {Absent, Struct(NoFields),
                   Struct([device |-> Context("Os", [name |-> S("wrong kind")]),
                           os |-> Absent,
                           unreal |-> Context("Other", [crash_type |-> S("Crash")]),
                           app |-> Context("App", [in_foreground |-> B("true"),
                                                   device_app_hash |-> S("h")]),
                           gpu |-> Context("Gpu", [name |-> S("g")]),
                           browser |-> Context("Browser", [browser |-> S("b 1"), name |-> S("b")]),
                           runtime |-> Context("Runtime", [runtime |-> S("rt 1")]),
                           trace |-> Context("Trace", [status |-> S("ok"), op |-> S("op")]),
                           response |-> Context("Response", [status_code |-> U("200")])]),
                   Struct([unreal |-> Context("Device", [crash_type |-> S("wrong kind")]),
                           monitor |-> Context("Monitor", [id |-> I("7"), slug |-> VArray]),
                           device |-> Context("Device", [battery_level |-> F("50"),
                                                         online |-> B("false")])])}}
    \cup {[start_timestamp |-> a, timestamp |-> b, ty |-> t] :
            a \in Times, b \in Times, t \in {Absent, S("transaction"), S("error")}}
    \cup {"measurements" :> x :
            x \in {Absent, Struct(NoFields),
                   Struct((<<"lcp">> :> Measure(F("1"))) @@ (<<"fcp">> :> Measure(Absent))
                          @@ (<<"ttfb">> :> Absent)
                          @@ (<<"frames", "slow">> :> Measure(F("3"))))}}
    \cup {"breakdowns" :> x :
            x \in {Absent,
                   Struct((<<"span_ops">> :> SeqMap(<<"ops", "http">>, Measure(F("2"))))
                          @@ (<<"gone">> :> Absent))}}
    \cup {"extra" :> x : x \in {Absent, Struct(NoFields), ExtraBag}}
    \cup {"exceptions" :> x :
            x \in {Absent, Struct(NoFields)}
                  \cup {Struct([values |-> List(l)]) : l \in SeqsUpTo(Exceptions, MaxLen)}}
    \cup {"tags" :> x :
            x \in {Absent, Pairs(<<>>),
                   Pairs(<<NoPair, Pair(NoStr, S("v0")), Pair(SomeStr(<<"k">>), Absent),
                           Pair(SomeStr(<<"k">>), S("v1")),
                           Pair(SomeStr(<<"a", "b">>), S("dotted"))>>)}}

Events == {Struct(v @@ base.f) : v \in Variations, base \in {EmptyEvent, FilledEvent}}

\* paths into the extra bag, as extra_at takes them
ExtraPaths ==
    {<<"a">>, <<"b">>, <<"c">>, <<"l">>, <<"d">>, <<"c", "d">>, <<"c", "e">>, <<"c", "f">>,
     <<"c", "o">>, <<"c", "o", "k">>, <<"c", "o", "n">>, <<"c", "d", "k">>, <<"a", "d">>,
     <<"l", "d">>, <<"c", "">>}

\* the paths asked for: every string-literal arm, with and without the
\* namespace, paths into the data bags, and malformed ones
Paths ==
    {<<"event">> \o p : p \in ExactPaths \cup {<<"duration">>}}
    \cup {<<"release">>, <<"duration">>, <<"user", "id">>, <<"platform">>,
          <<"">>, <<"event">>, <<"event", "">>, <<"Event", "release">>,
          <<"", "event", "release">>, <<"events", "release">>}
    \cup {<<"event">> \o p : p \in
            {<<"", "release">>, <<"release", "">>, <<"releases">>, <<"release", "build">>,
             <<"release", "package">>, <<"release", "version", "short">>,
             <<"release", "version">>, <<"release", "build", "">>,
             <<"measurements">>, <<"measurements", "">>, <<"measurements", "value">>,
             <<"measurements", "lcp">>, <<"measurements", "lcp", "value">>,
             <<"measurements", "fcp", "value">>, <<"measurements", "ttfb", "value">>,
             <<"measurements", "frames", "slow", "value">>,
             <<"measurements", "", "value">>, <<"measurements", "nope", "value">>,
             <<"breakdowns">>, <<"breakdowns", "">>, <<"breakdowns", "span_ops">>,
             <<"breakdowns", "span_ops", "ops", "http">>, <<"breakdowns", "span_ops", "ops">>,
             <<"breakdowns", "gone", "ops", "http">>, <<"breakdowns", "", "">>,
             <<"extra">>, <<"extra", "">>, <<"extra", "a">>, <<"extra", "b">>,
             <<"extra", "c">>, <<"extra", "l">>, <<"extra", "d">>, <<"extra", "c", "d">>,
             <<"extra", "c", "e">>, <<"extra", "c", "f">>, <<"extra", "a", "x">>,
             <<"extra", "c", "">>, <<"extra", "c", "d", "x">>,
             <<"tags">>, <<"tags", "">>, <<"tags", "custom">>, <<"tags", "doesntexist">>,
             <<"tags", "k">>, <<"tags", "a", "b">>, <<"tags", "a">>,
             <<"request">>, <<"request", "headers">>, <<"request", "headers", "">>,
             <<"request", "headers", "user-agent">>, <<"request", "headers", "USER-AGENT">>,
             <<"request", "headers", "accept">>, <<"request", "headers", "x", "y">>,
             <<"request", "headers", "x">>, <<"request", "header", "x">>,
             <<"request", "method", "">>, <<"user">>, <<"user", "geo">>, <<"contexts">>,
             <<"contexts", "device">>, <<"contexts", "device", "name", "x">>,
             <<"foo">>, <<"foo", "bar">>, <<"", "">>,
             <<"exception">>, <<"exception", "values">>, <<"exception", "values", "">>,
             <<"exceptions", "values">>, <<"exception", "value">>}}
    \cup {<<"exception", "values">>, <<"", "exception", "values">>}
    \cup ExtraPaths

NotAsked == NoneVal("-")

InitGetter ==
    /\ event \in Events
    /\ path \in Paths
    /\ got = NotAsked
    /\ iter = NoIter
    /\ yielded = <<>>
    /\ phase = "ask"
    /\ tree = Leaf("Uuid") /\ root = StateRoot /\ result = Ok
    /\ proc = [log |-> <<>>, seen |-> <<>>, n |-> 0, abortAt |-> 0, action |-> Ok,
               over |-> AllHooks]

\* a caller resolves the path against the event
GetValue ==
    /\ phase = "ask"
    /\ got' = get_value(event, path)
    /\ phase' = "value"
    /\ UNCHANGED <<event, path, tree, root, proc, result, iter, yielded>>

\* a caller asks for the items under the path
GetIter ==
    /\ phase = "ask"
    /\ iter' = get_iter(event, path)
    /\ phase' = "iter"
    /\ UNCHANGED <<event, path, tree, root, proc, result, got, yielded>>

\* the caller calls next() on the iterator it got; the call that finds
\* nothing left returns None
IterNext ==
    /\ phase = "iter"
    /\ iter.tag = "Some"
    /\ ~iter.done
    /\ IF iter.rest = <<>>
       THEN iter' = [iter EXCEPT !.done = TRUE] /\ yielded' = yielded
       ELSE iter' = [iter EXCEPT !.rest = Tail(@)] /\ yielded' = Append(yielded, Head(iter.rest))
    /\ UNCHANGED <<event, path, tree, root, proc, result, got, phase>>

\* Option<&Value>: None, or the value found
NoValue == [tag |-> "None", val |-> Absent, arm |-> "extra_at"]
SomeValue(x) == [tag |-> "Some", val |-> x, arm |-> "extra_at"]

\* a caller looks the path up in the extra bag
ExtraAt ==
    /\ phase = "ask"
    /\ got' = (IF extra_at(event, path).t = "absent" THEN NoValue
               ELSE SomeValue(extra_at(event, path)))
    /\ phase' = "extra"
    /\ UNCHANGED <<event, path, tree, root, proc, result, iter, yielded>>

\* a caller asks for the raw user agent string
UserAgent ==
    /\ phase = "ask"
    /\ got' = OptVal(user_agent(event), "user_agent")
    /\ phase' = "agent"
    /\ UNCHANGED <<event, path, tree, root, proc, result, iter, yielded>>

NextGetter == GetValue \/ GetIter \/ IterNext \/ ExtraAt \/ UserAgent

SpecGetter == InitGetter /\ [][NextGetter]_vars

\* ------------------------------------------------------ reading the log
Log == proc.log
HookIdx == {i \in DOMAIN Log : Log[i].kind = "hook"}
HookLog == SelectSeq(Log, LAMBDA e : e.kind = "hook")
HooksAt(name, p) == {i \in HookIdx : Log[i].name = name /\ Log[i].path = p}
VisitsAt(p) == {i \in DOMAIN Log : Log[i].kind = "visit" /\ Log[i].path = p}
HookEntry(name, p) == [kind |-> "hook", name |-> name, path |-> p]
Ran == phase \in {"dispatched", "impl", "children"}
\* a hook returned the processor's action
Aborted == proc.abortAt > 0 /\ proc.n >= proc.abortAt
RootPath == state_path(root)
IsPrefix(p, q) == Len(p) <= Len(q) /\ SubSeq(q, 1, Len(p)) = p

\* the children of a sequence, a map and a tuple, and their path segments
Children(node) == IF node.ty \in {"Array", "Object", "Tuple"} THEN node.kids ELSE <<>>
ChildSeg(node, i) == IF node.ty = "Object" THEN node.keys[i] ELSE ToString(i - 1)
\* the hook process_value() of a type calls first, "" if it has none
OwnHook(ty) ==
    CASE ty = "String" -> "process_string"
      [] ty = "Bool" -> "process_bool"
      [] ty = "U64" -> "process_u64"
      [] ty = "I64" -> "process_i64"
      [] ty = "F64" -> "process_f64"
      [] ty = "Array" -> "process_array"
      [] ty = "Object" -> "process_object"
      [] ty = "Value" -> "process_value"
      [] ty = "HeaderName" -> "process_header_name"
      [] OTHER -> ""

\* C1 (single-hook invariant): process_child_values alone, when no hook
\* returns an action, visits each child of a sequence, map or tuple exactly
\* once, calls each child's hook exactly once, and never calls the hook of
\* the node it was invoked on; a node without children of its own gets no
\* call at all.
C1_SingleHook ==
    (phase = "children" /\ result.ok) =>
        /\ \A i \in DOMAIN Children(tree) :
             LET cp == Append(RootPath, ChildSeg(tree, i))
                 h  == OwnHook(Children(tree)[i].ty)
             IN  /\ Cardinality(VisitsAt(cp)) = 1
                 /\ h # "" => Cardinality(HooksAt(h, cp)) = 1
        /\ Cardinality({i \in DOMAIN Log : Log[i].kind = "visit"
                                           /\ Len(Log[i].path) = Len(RootPath) + 1})
             = Len(Children(tree))
        /\ \A i \in HookIdx : Log[i].path # RootPath
        /\ Children(tree) = <<>> => Log = <<>>

C1_Witness ==
    /\ phase = "children"
    /\ tree = Arr(<<Leaf("String"), Leaf("String")>>)
    /\ result.ok
    /\ Len(HookLog) = 2
    /\ HooksAt("process_array", RootPath) = {}

Foo == enter_static(StateRoot, "foo", DefaultAttrs, {})
\* the sequence at the root of the tree, directly or inside a dynamic value
RootSeq == IF tree.ty = "Value" THEN tree.kids[1] ELSE tree
\* the element of the root sequence a path lies in
ElemOf(p) == CHOOSE j \in DOMAIN RootSeq.kids : ToString(j - 1) = p[Len(RootPath) + 1]

C4_Bracketing ==
    (Ran /\ ~Aborted) =>
        \A i \in HookIdx :
            Log[i].name = "process_value" =>
                LET b == HooksAt("before_process", Log[i].path)
                    a == HooksAt("after_process", Log[i].path)
                IN  /\ Cardinality(b) = 1
                    /\ Cardinality(a) = 1
                    /\ \A x \in b, y \in a : i < x /\ x < y

C4_Witness ==
    /\ phase = "dispatched"
    /\ tree = Arr(<<Val(Leaf("String")), Val(Leaf("I64"))>>)
    /\ ~Aborted
    /\ HooksAt("after_process", Append(RootPath, "1")) # {}

C6_NoRecursion ==
    (phase \in {"dispatched", "impl"} /\ tree.ty \in {"Value", "HeaderName"} /\ ~Aborted) =>
        LET outer == HooksAt(OwnHook(tree.ty), RootPath)
            inner == HooksAt(OwnHook(tree.kids[1].ty), RootPath)
        IN  /\ Cardinality(outer) = 1
            /\ Cardinality(inner) = 1
            /\ \A i \in outer :
                 /\ Log[i + 1] = Entry("marker", "before_process_child_values", root)
                 /\ Log[i + 2] = Entry("marker", "after_process_child_values", root)
                 /\ \A j \in inner : j > i + 2 /\ Log[j].path = Log[i].path

C6_Witness ==
    /\ phase = "dispatched"
    /\ tree = HeaderName
    /\ root = Foo
    /\ ~Aborted
    /\ HooksAt("process_string", <<"foo">>) # {}

\* ----------------------------------------------------- getter claims
Asked == phase = "value"
Namespaced == strip_prefix(path, <<"event">>).some
Rest == strip_prefix(path, <<"event">>).s
BagPrefixes ==
    {<<"release">>, <<"measurements">>, <<"breakdowns">>, <<"extra">>, <<"tags">>,
     <<"request", "headers">>}
\* the prefix written "release." etc. as the arm note of a result
ArmName(pre) == IF pre = <<"request", "headers">> THEN "request.headers." ELSE pre[1] \o "."

\* C8 (getter totality): for every path and every event get_value returns
\* None or Some of a Val of one of the known kinds; it never panics.
C8_Totality ==
    Asked => /\ got.tag \in {"Some", "None"}
             /\ got.tag = "Some" => got.val.k \in ValKinds
             /\ got.tag = "None" => got.val = NoVal

C8_Witness ==
    /\ Asked
    /\ path = <<"event", "breakdowns", "">>
    /\ Field(event, "breakdowns").t # "absent"
    /\ got.tag = "None"

\* the field an exact path addresses is absent: a hop of its accessor chain
\* is an empty Annotated, or a context of another kind sits under the key
AddressedAbsent ==
    /\ Namespaced
    /\ \/ Rest \in ExactPaths /\ walk(event, ArmOf(Rest).chain).t = "absent"
       \/ Rest = <<"duration">>
            /\ "absent" \in {Field(event, "start_timestamp").t, Field(event, "timestamp").t}
       \/ \E pre \in BagPrefixes \ {<<"request", "headers">>} :
            strip_prefix(Rest, pre).some /\ Field(event, pre[1]).t = "absent"
       \/ /\ strip_prefix(Rest, <<"request", "headers">>).some
          /\ Field(Field(event, "request"), "headers").t = "absent"

\* C9 as stated: no path yields a value when what it addresses is absent.
C9_AsStated == (Asked /\ AddressedAbsent) => got.tag = "None"

\* C9 (amended): a path whose addressed field or container is absent
\* resolves to None, except event.platform, which then resolves to the
\* string "other"; a path that is no arm and has no recognized prefix
\* resolves to None.
C9_MissesAreNone ==
    Asked =>
        /\ (AddressedAbsent /\ Rest # <<"platform">>) => got.tag = "None"
        /\ (AddressedAbsent /\ Rest = <<"platform">>) =>
              got.tag = "Some" /\ got.val = [k |-> "String", v |-> "other"]
        /\ (~Namespaced \/ /\ Rest \notin ExactPaths \cup {<<"duration">>}
                           /\ \A pre \in BagPrefixes : ~strip_prefix(Rest, pre).some)
              => got.tag = "None"

C9_Witness ==
    /\ Asked
    /\ path = <<"event", "contexts", "device", "name">>
    /\ Field(Field(event, "contexts"), "device").t = "ctx"
    /\ Field(Field(event, "contexts"), "device").variant = "Os"
    /\ got.tag = "None"

\* C10 (getter prefix precedence): a path equal to a string-literal arm is
\* answered by that arm, also when the arm yields None; a prefix rule
\* answers only paths that equal no arm and start with its prefix;
\* event.release is the raw release string and event.request.method the
\* request method.
C10_Precedence ==
    (Asked /\ Namespaced) =>
        /\ Rest \in ExactPaths \cup {<<"duration">>} => got.arm = "exact"
        /\ \A pre \in BagPrefixes :
             got.arm = ArmName(pre) =>
                /\ Rest \notin ExactPaths \cup {<<"duration">>}
                /\ strip_prefix(Rest, pre).some
        /\ Rest = <<"release">> => got = OptVal(Field(event, "release"), "exact")
        /\ Rest = <<"request", "method">> =>
              got = OptVal(Field(Field(event, "request"), "method"), "exact")

C10_Witness ==
    /\ Asked
    /\ path = <<"event", "release">>
    /\ Field(event, "release").t = "absent"
    /\ Field(event, "tags").t # "absent"
    /\ got = NoneVal("exact")

\* ------------------------------------------------------------ headers
\* the spellings of the pieces of header names that occur
HeaderForms ==
    {"USER-AGENT", "User-Agent", "user-agent", "ACCEPT", "Accept", "accept", "x", "y", ""}
\* the names that differ from name in ASCII case only
CaseVariants(name) ==
    {v \in [DOMAIN name -> HeaderForms] : eq_ignore_ascii_case(v, name)}
HeaderPath == Namespaced /\ strip_prefix(Rest, <<"request", "headers">>).some
HeaderAsked == strip_prefix(Rest, <<"request", "headers">>).s
HeaderItems ==
    LET h == Field(Field(event, "request"), "headers")
    IN  IF h.t = "absent" THEN <<>> ELSE h.items
\* the positions of the headers whose name is the asked one in some case
HeaderMatches ==
    {i \in DOMAIN HeaderItems :
        /\ HeaderItems[i].present
        /\ HeaderItems[i].key.some
        /\ eq_ignore_ascii_case(HeaderItems[i].key.s, HeaderAsked)}

\* C11 (header case-insensitivity): a header path resolves to the same
\* result under every ASCII-case variant of the header name, and that
\* result is the value of the first header whose name matches ignoring
\* case (None when that value is missing or no header matches).
C11_HeaderCase ==
    (Asked /\ HeaderPath) =>
        /\ \A v \in CaseVariants(HeaderAsked) :
              get_value(event, <<"event", "request", "headers">> \o v) = got
        /\ HeaderMatches = {} => got.tag = "None"
        /\ HeaderMatches # {} =>
              LET first == CHOOSE i \in HeaderMatches : \A j \in HeaderMatches : i <= j
              IN  got = OptVal(HeaderItems[first].val, "request.headers.")

C11_Witness ==
    /\ Asked
    /\ path = <<"event", "request", "headers", "USER-AGENT">>
    /\ Cardinality(HeaderMatches) = 2
    /\ Len(HeaderItems) = 4
    /\ HeaderItems[3].key = SomeStr(<<"User-Agent">>)
    /\ got = SomeVal(into_val(S("v1")), "request.headers.")

\* ----------------------------------------------------------- duration
StartTs == Field(event, "start_timestamp")
EndTs == Field(event, "timestamp")
IsTransaction == Field(event, "ty") = S("transaction")

\* C12 (derived-field soundness): event.duration is None when a timestamp
\* is missing, when start is after end, or when the event type is not
\* Transaction or is absent; otherwise it is the number end - start, which
\* is not negative.
C12_Duration ==
    (Asked /\ path = <<"event", "duration">>) =>
        IF \/ StartTs.t = "absent"
           \/ EndTs.t = "absent"
           \/ ~IsTransaction
        THEN got.tag = "None"
        ELSE IF StartTs.n > EndTs.n THEN got.tag = "None"
        ELSE /\ got.tag = "Some"
             /\ got.val = [k |-> "F64", v |-> ToString(EndTs.n - StartTs.n)]
             /\ EndTs.n - StartTs.n >= 0

C12_Witness ==
    /\ Asked
    /\ path = <<"event", "duration">>
    /\ IsTransaction
    /\ StartTs = Ts(0)
    /\ EndTs = Ts(MaxTs)
    /\ got.tag = "Some"
    /\ got.val.v = ToString(MaxTs)

\* ----------------------------------------------------------- iteration
IterAsked == phase = "iter"
ExceptionValues == Field(Field(event, "exceptions"), "values")

\* C13 (iteration mode): get_iter("event.exception.values") gives an
\* iterator whose next() returns the exceptions of the list one by one in
\* list order and then None; get_iter gives None when the exceptions
\* container or its values list is absent, and for every other path.
C13_Iteration ==
    IterAsked =>
        IF path = <<"event", "exception", "values">> /\ ExceptionValues.t # "absent"
        THEN /\ iter.tag = "Some"
             /\ yielded \o iter.rest = ExceptionValues.items
             /\ iter.done => yielded = ExceptionValues.items
        ELSE iter.tag = "None" /\ yielded = <<>>

C13_Witness ==
    /\ IterAsked
    /\ path = <<"event", "exception", "values">>
    /\ ExceptionValues.t = "list"
    /\ Len(ExceptionValues.items) = 2
    /\ ExceptionValues.items[1] # ExceptionValues.items[2]
    /\ iter.done
    /\ yielded = ExceptionValues.items

\* ------------------------------------------------------- order of visits
\* the log entries recorded below the root position, and the child of the
\* root collection each belongs to
Below == {i \in DOMAIN Log : Len(Log[i].path) > Len(RootPath)}
SegOf(i) == Log[i].path[Len(RootPath) + 1]
\* the place of a key in the order of insertion
InsertedAt(k) == CHOOSE i \in DOMAIN RootSeq.keys : RootSeq.keys[i] = k
\* a map was processed, or its children-recursion was run, to the end
MapRun ==
    /\ RootSeq.ty = "Object"
    /\ ~Aborted
    /\ phase \in {"dispatched", "impl"} \/ (phase = "children" /\ tree.ty = "Object")

\* C14 as stated: the children of a map are visited in insertion order.
C14_AsStated ==
    MapRun =>
        \A i, j \in Below : i < j => InsertedAt(SegOf(i)) <= InsertedAt(SegOf(j))

\* C14 (amended): the children of a map are visited in ascending key order,
\* whatever the order in which the keys were inserted, and every entry is
\* visited once.
C14_KeyOrder ==
    MapRun =>
        /\ \A i, j \in Below : i < j => KeyRank(SegOf(i)) <= KeyRank(SegOf(j))
        /\ \A k \in DOMAIN RootSeq.keys :
              Cardinality(VisitsAt(Append(RootPath, RootSeq.keys[k]))) = 1

C14_Witness ==
    /\ phase = "children"
    /\ tree = Obj(<<"b", "a">>, <<Leaf("String"), Leaf("String")>>)
    /\ ~Aborted
    /\ HookLog = << HookEntry("process_string", Append(RootPath, "a")),
                    HookEntry("process_string", Append(RootPath, "b")) >>

\* the visits of the children of the root collection, in the order made
ChildVisits ==
    SelectSeq(Log, LAMBDA e : e.kind = "visit" /\ Len(e.path) = Len(RootPath) + 1)
\* a sequence or a tuple was processed, or its children-recursion was run,
\* to the end
SeqRun ==
    /\ RootSeq.ty \in {"Array", "Tuple"}
    /\ ~Aborted
    /\ phase \in {"dispatched", "impl"} \/ (phase = "children" /\ tree = RootSeq)

\* C15 (index-ordered recursion): the children of a sequence or tuple are
\* visited once each in ascending position; the state of the child at
\* position i has the index i, counted from 0, as its path segment, the
\* value-type set of that element, and the inner policy of the parent.
C15_IndexOrder ==
    SeqRun =>
        /\ Len(ChildVisits) = Len(RootSeq.kids)
        /\ \A k \in DOMAIN ChildVisits :
              LET e == ChildVisits[k]
              IN  /\ e.path = Append(RootPath, ToString(k - 1))
                  /\ e.name = RootSeq.kids[k].ty
                  /\ Last(e.state) = Frame("index", ToString(k - 1), inner_attrs(root),
                                           value_type(RootSeq.kids[k]))

C15_Witness ==
    /\ phase = "children"
    /\ tree = Tup(<<Leaf("String"), Arr(<<Leaf("String")>>)>>)
    /\ attrs(root) = PiiAttrs
    /\ ~Aborted
    /\ Len(ChildVisits) = 2
    /\ Last(ChildVisits[2].state) = Frame("index", "1", PiiAttrs, {"Array"})

\* ------------------------------------------------------- boxed wrapper
\* the processor as it was before the operation ran
Fresh == [proc EXCEPT !.log = <<>>, !.seen = <<>>, !.n = 0]

\* C16: process_child_values on a Box records the same visits and hook
\* calls, and returns the same result, as process_child_values on the
\* value in the box.
C16_BoxChildren ==
    (phase = "children" /\ tree.ty = "Box") =>
        LET r == T_process_child_values(tree.kids[1], Fresh, root)
        IN  proc.log = r.P.log /\ result = r.res

\* C17 (boxed wrapper transparency): value_type and process_value on a Box
\* give the value-type set, the log and the result that the value in the
\* box gives; the first hook called is that of the wrapped value, with the
\* path of the incoming state, and the children of a wrapped sequence are
\* visited with a state one frame longer than the incoming one.
C17_BoxTransparent ==
    (phase = "impl" /\ tree.ty = "Box") =>
        LET inner == tree.kids[1]
            r == T_process_value(inner, Fresh, root)
        IN  /\ value_type(tree) = value_type(inner)
            /\ proc.log = r.P.log
            /\ result = r.res
            /\ OwnHook(inner.ty) # "" =>
                  /\ HookLog # <<>>
                  /\ HookLog[1] = HookEntry(OwnHook(inner.ty), RootPath)
            /\ \A i \in DOMAIN Log :
                  /\ IsPrefix(RootPath, Log[i].path)
                  /\ Log[i].kind = "visit" =>
                        /\ Len(Log[i].state) = Len(root) + 1
                        /\ SubSeq(Log[i].state, 1, Len(root)) = root

C17_Witness ==
    /\ phase = "impl"
    /\ tree = Box(Arr(<<Val(Leaf("String")), Val(Leaf("I64"))>>))
    /\ root = Foo
    /\ ~Aborted
    /\ HookLog[1] = HookEntry("process_array", <<"foo">>)
    /\ Last(HookLog) = HookEntry("after_process", <<"foo", "1">>)

\* ------------------------------------------------------ value-type sets
\* the kind of a concrete type that declares one
KindOf(ty) ==
    CASE ty = "String" -> "String"
      [] ty = "Bool" -> "Boolean"
      [] ty \in {"U64", "I64", "F64"} -> "Number"
      [] ty \in {"Array", "Tuple"} -> "Array"
      [] ty = "Object" -> "Object"
Declaring == ScalarTypes \cup {"Array", "Tuple", "Object"}
\* the visits the engine made with a state it derived for a child
VisitIdx == {i \in DOMAIN Log : Log[i].kind = "visit" /\ Len(Log[i].state) > Len(root)}

\* C18 as stated: the value-type set of every node that is not a dynamic
\* value, Uuid included, has exactly one element, and so has the set the
\* engine puts into the state of every position it visits.
C18_AsStated ==
    Ran =>
        /\ Cardinality(value_type(tree)) = 1
        /\ \A i \in VisitIdx : Cardinality(Last(Log[i].state).vt) = 1

\* C18 (amended): string, bool, integer, float, sequence, map and tuple
\* nodes have the one-element set of their kind, with all integers and
\* floats Number and sequences and tuples Array; a dynamic value has the
\* set of the variant it holds; a Uuid, which keeps the trait default, has
\* the empty set.  The same sets are in the states of visited positions.
C18_ValueTypes ==
    Ran =>
        /\ tree.ty \in Declaring => value_type(tree) = {KindOf(tree.ty)}
        /\ tree.ty = "Value" => value_type(tree) = {KindOf(tree.kids[1].ty)}
        /\ tree.ty = "Uuid" => value_type(tree) = {}
        /\ \A i \in VisitIdx :
              LET vt == Last(Log[i].state).vt
              IN  /\ Log[i].name \in Declaring => vt = {KindOf(Log[i].name)}
                  /\ Log[i].name = "Value" => Cardinality(vt) = 1 /\ vt \subseteq ValueType
                  /\ Log[i].name = "Uuid" => vt = {}

C18_Witness ==
    /\ phase = "children"
    /\ tree = Tup(<<Leaf("Uuid"), Tup(<<Leaf("String")>>)>>)
    /\ ~Aborted
    /\ Len(ChildVisits) = 2
    /\ Last(ChildVisits[1].state).vt = {}
    /\ Last(ChildVisits[2].state).vt = {"Array"}

\* -------------------------------------------------------- default hooks
PartialRun == phase = "partial"

\* C19 (default hooks): a hook the processor does not override leaves no
\* call of its own behind; for a scalar, sequence or map whose hook is not
\* overridden, process_value does what process_child_values with the same
\* state does and returns its result; the children of such a sequence get
\* states derived from the incoming state; the result is Ok unless an
\* overridden hook returned an action; the default before_process and
\* after_process record nothing and return Ok.
C19_DefaultHooks ==
    PartialRun =>
        /\ \A i \in HookIdx : Log[i].name \in proc.over
        /\ (tree.ty \in ScalarTypes \cup {"Array", "Object"} /\ OwnHook(tree.ty) \notin proc.over) =>
              LET r == T_process_child_values(tree, Fresh, root)
              IN  proc = r.P /\ result = r.res
        /\ (tree.ty = "Array" /\ "process_array" \notin proc.over /\ ~Aborted) =>
              /\ Len(ChildVisits) = Len(tree.kids)
              /\ \A k \in DOMAIN ChildVisits :
                    ChildVisits[k].state =
                        enter_index(root, k - 1, inner_attrs(root), value_type(tree.kids[k]))
        /\ result = IF Aborted THEN proc.action ELSE Ok

C19_Witness ==
    /\ PartialRun
    /\ tree = Arr(<<Leaf("String"), Leaf("String")>>)
    /\ proc.over = {"process_string"}
    /\ root = Foo
    /\ ~Aborted
    /\ HookLog = << HookEntry("process_string", <<"foo", "0">>),
                    HookEntry("process_string", <<"foo", "1">>) >>

\* ------------------------------------------------------- catch-all hook
OtherRun == phase = "other"
\* the entry of the bag under a key
EntryOf(k) == tree.kids[CHOOSE i \in DOMAIN tree.keys : tree.keys[i] = k]

\* C20 (catch-all hook): the default process_other visits the entries of
\* the bag in ascending key order, each with the state
\* enter_borrowed(key, inner policy of the incoming state, value-type set
\* of the entry); when no hook returns an action every entry is visited
\* once and the result is Ok (nothing is recorded for an empty bag); when a
\* hook returns an action that action is the result and no entry after the
\* one being visited is visited.
C20_ProcessOther ==
    OtherRun =>
        /\ \A k \in DOMAIN ChildVisits :
              LET e == ChildVisits[k]
                  key == Last(e.path)
              IN  /\ e.state = enter_borrowed(root, key, inner_attrs(root),
                                              value_type(EntryOf(key)))
                  /\ \A j \in DOMAIN ChildVisits : j < k =>
                        KeyRank(Last(ChildVisits[j].path)) < KeyRank(key)
                  /\ \A j \in 1..Len(tree.keys) :
                        KeyRank(tree.keys[j]) < KeyRank(key) =>
                           VisitsAt(Append(RootPath, tree.keys[j])) # {}
        /\ ~Aborted => /\ result = Ok
                       /\ Len(ChildVisits) = Len(tree.keys)
        /\ Aborted => /\ result = proc.action
                      /\ Last(Log).kind = "hook"
                      /\ Last(ChildVisits).path = SubSeq(Last(Log).path, 1, Len(RootPath) + 1)
        /\ tree.keys = <<>> => Log = <<>> /\ result = Ok

C20_Witness ==
    /\ OtherRun
    /\ tree = Obj(<<"b", "a">>, <<Val(Leaf("String")), Val(Leaf("I64"))>>)
    /\ root = Foo
    /\ Aborted
    /\ result = InvalidTransaction("r1")
    /\ Len(ChildVisits) = 1
    /\ Last(Log) = HookEntry("process_i64", <<"foo", "a">>)

\* ----------------------------------------------------------- extra_at
ExtraAsked == phase = "extra"
\* what sits at each component of the path: HopAt[0] is the extra map,
\* HopAt[i] the entry the i-th component names in HopAt[i-1], which below
\* the top level has entries only if it is an Object
HopAt[i \in 0..Len(path)] ==
    IF i = 0 THEN Field(event, "extra")
    ELSE IF i = 1 THEN Field(HopAt[0], path[1])
    ELSE IF HopAt[i - 1].t = "Object" THEN Field(HopAt[i - 1], path[i])
    ELSE Absent

\* C21 (extra_at): the path is split on '.', the first component is looked
\* up in the extra map and each further one in the current value while
\* that is an Object; the result is None when extra is absent, a component
\* is missing, a non-final component is no Object or the addressed entry
\* has no value, and else the addressed value, of whatever kind.
C21_ExtraAt ==
    ExtraAsked =>
        IF \E i \in 0..Len(path) : HopAt[i].t = "absent"
        THEN got = NoValue
        ELSE got = SomeValue(HopAt[Len(path)])

C21_Witness ==
    /\ ExtraAsked
    /\ path = <<"c", "o">>
    /\ Field(event, "extra") = ExtraBag
    /\ got = SomeValue(VObject([k |-> S("deep"), n |-> Absent]))

\* ------------------------------------------------ dynamic-value visits
\* the state each logged call was given
Seen == proc.seen
\* the per-kind hooks of the variants a dynamic value can hold
VariantHooks ==
    {"process_bool", "process_i64", "process_u64", "process_f64", "process_string",
     "process_array", "process_object"}
\* the state Value::process_value derives from the state st
Derived(st) == enter_nothing(st, attrs(st))
\* the names of the hooks called after log entry i with the state d, in
\* the order of the calls
CallsWith(i, d) ==
    LET idx == [j \in 1..Len(Log) |-> j]
        sel == SelectSeq(idx, LAMBDA j : j > i /\ Log[j].kind = "hook" /\ Seen[j] = d)
    IN  [k \in DOMAIN sel |-> Log[sel[k]].name]
\* the calls of the dynamic-value hook in the log
ValueCalls == {i \in HookIdx : Log[i].name = "process_value"}
ValueRun == phase \in {"dispatched", "impl"}

\* C22 (dynamic-value visit order): the dynamic-value hook is called with
\* the incoming state; the calls made with the state derived from it are,
\* in this order, before_process, the per-kind hook of the variant held and
\* after_process (the first of them up to the one that returned an action,
\* if one did), so the per-kind hook lies between the other two.
C22_VisitOrder ==
    ValueRun =>
        /\ \A i \in ValueCalls :
              LET calls == CallsWith(i, Derived(Seen[i]))
              IN  /\ i > 1 /\ Log[i - 1].kind = "visit" => Seen[i] = Log[i - 1].state
                  /\ Len(calls) <= 3
                  /\ Len(calls) >= 1 => calls[1] = "before_process"
                  /\ Len(calls) >= 2 => calls[2] \in VariantHooks
                  /\ Len(calls) >= 3 => calls[3] = "after_process"
                  /\ ~Aborted => Len(calls) = 3
        /\ (phase = "impl" /\ tree.ty = "Value" /\ ~Aborted) =>
              /\ Log[1].name = "process_value" /\ Seen[1] = root
              /\ CallsWith(1, Derived(root))
                   = <<"before_process", OwnHook(tree.kids[1].ty), "after_process">>

C22_Witness ==
    /\ phase = "impl"
    /\ tree = Val(Arr(<<Val(Leaf("String"))>>))
    /\ root = Foo
    /\ ~Aborted
    /\ CallsWith(1, Derived(Foo)) = <<"before_process", "process_array", "after_process">>
    /\ Cardinality(ValueCalls) = 2

\* root().enter_static("foo", ..) with a field policy set
FooPii == enter_static(StateRoot, "foo", PiiAttrs, {"Array", "Object"})
\* the calls of before_process, a per-kind hook or after_process that
\* follow log entry i at the same path
UnwrappedCalls(i) ==
    {j \in HookIdx : /\ j > i
                     /\ Log[j].path = Log[i].path
                     /\ Log[j].name \in VariantHooks \cup {"before_process", "after_process"}}

\* C23 (unwrapping keeps path and policy): before_process, the per-kind
\* hook and after_process of a dynamic value are called with the path and
\* the field policy the dynamic-value hook was called with; the elements of
\* an array held by a dynamic value at path P are visited with the paths
\* P.0, P.1, .. and nothing is visited under any other path.
C23_Unwrapping ==
    ValueRun =>
        /\ \A i \in ValueCalls :
              /\ \A j \in UnwrappedCalls(i) :
                    /\ state_path(Seen[j]) = state_path(Seen[i])
                    /\ attrs(Seen[j]) = attrs(Seen[i])
              /\ ~Aborted => {Log[j].name : j \in UnwrappedCalls(i)} \cap
                                {"before_process", "after_process"}
                             = {"before_process", "after_process"}
              /\ ~Aborted => Cardinality(UnwrappedCalls(i)) = 3
        /\ (phase = "impl" /\ tree.ty = "Value" /\ tree.kids[1].ty = "Array") =>
              LET elems == tree.kids[1].kids
                  visits == {j \in DOMAIN Log : /\ Log[j].kind = "visit"
                                                /\ Len(Log[j].path) = Len(RootPath) + 1}
              IN  /\ \A j \in DOMAIN Log : IsPrefix(RootPath, Log[j].path)
                  /\ {Log[j].path : j \in visits}
                       \subseteq {Append(RootPath, ToString(k - 1)) : k \in DOMAIN elems}
                  /\ ~Aborted => {Log[j].path : j \in visits}
                                   = {Append(RootPath, ToString(k - 1)) : k \in DOMAIN elems}

C23_Witness ==
    /\ phase = "impl"
    /\ tree = Val(Arr(<<Val(Leaf("String")), Val(Leaf("I64"))>>))
    /\ root = FooPii
    /\ ~Aborted
    /\ VisitsAt(<<"foo", "1">>) # {}
    /\ \E j \in HooksAt("process_array", <<"foo">>) : attrs(Seen[j]) = PiiAttrs

\* ------------------------------------------------------ state derivation
VisitIdxAll == {j \in DOMAIN Log : Log[j].kind = "visit"}
\* the state a state was derived from
ParentOf(st) == SubSeq(st, 1, Len(st) - 1)
\* the states given to the calls logged before entry j, and the state the
\* operation itself was given
GivenBefore(j) == {root} \cup {Seen[i] : i \in 1..(j - 1)}
CollectionRun ==
    /\ tree.ty \in {"Array", "Object", "Tuple"}
    /\ phase \in {"dispatched", "impl", "children"}
AfterMarkers ==
    {j \in DOMAIN Log : Log[j] = [kind |-> "marker", name |-> "after_process_child_values",
                                  path |-> Log[j].path]}

\* C24 (state derivation leaves the parent unchanged): every child of a
\* sequence, map or tuple is visited with a state that is the parent's
\* state plus one frame of its own, so its path is the parent's path plus
\* its own segment only; the state a hook holds after process_child_values
\* returned is the state it held before the call.
C24_ParentUnchanged ==
    CollectionRun =>
        /\ \A j \in VisitIdxAll :
              Log[j].state # root =>
                 /\ ParentOf(Log[j].state) \in GivenBefore(j)
                 /\ state_path(Log[j].state)
                      = Append(state_path(ParentOf(Log[j].state)), Last(Log[j].state).text)
        /\ (phase = "children" /\ ~Aborted) =>
              /\ Len(ChildVisits) = Len(tree.kids)
              /\ \A k \in DOMAIN ChildVisits :
                    /\ ParentOf(ChildVisits[k].state) = root
                    /\ ChildVisits[k].path = Append(RootPath, ChildSeg(tree, k))
                         \/ tree.ty = "Object"
        /\ \A j \in AfterMarkers :
              \E i \in 1..(j - 1) :
                 /\ Log[i].kind = "marker"
                 /\ Log[i].name = "before_process_child_values"
                 /\ Seen[i] = Seen[j]
                 /\ Seen[i - 1] = Seen[j]

C24_Witness ==
    /\ phase = "children"
    /\ tree = Arr(<<Val(Leaf("String")), Val(Leaf("I64"))>>)
    /\ root = FooPii
    /\ ~Aborted
    /\ Len(ChildVisits) = 2
    /\ ChildVisits[2].state = enter_index(FooPii, 1, PiiAttrs, {"Number"})

\* ------------------------------------------ abort in a dynamic value
\* the log entry of the hook call that returned the action
AbortIdx == CHOOSE a \in HookIdx : \A j \in HookIdx : j <= a
\* the number of calls of the hook among the first k log entries
CountUpTo(name, k) ==
    Cardinality({j \in 1..k : Log[j].kind = "hook" /\ Log[j].name = name})

\* C25 (abort inside a dynamic-value visit): an action returned by the
\* dynamic-value hook, by before_process or by the per-kind hook ends the
\* visit at that call: none of the calls that would follow is made, and
\* the action is the result.  At every point of the log there are at most
\* as many after_process calls as before_process calls.
C25_AbortInValue ==
    ValueRun =>
        /\ Aborted =>
              /\ Len(HookLog) = proc.abortAt
              /\ result = proc.action
              /\ \A i \in ValueCalls :
                    LET d == Derived(Seen[i])
                        calls == CallsWith(i, d)
                    IN  /\ AbortIdx = i => calls = <<>>
                        /\ (Log[AbortIdx].name = "before_process" /\ Seen[AbortIdx] = d)
                              => calls = <<"before_process">>
                        /\ (Log[AbortIdx].name \in VariantHooks /\ Seen[AbortIdx] = d)
                              => calls = <<"before_process", Log[AbortIdx].name>>
                        /\ (/\ AbortIdx = i \/ IsPrefix(d, Seen[AbortIdx])
                            /\ ~(Log[AbortIdx].name = "after_process" /\ Seen[AbortIdx] = d))
                              => \A k \in DOMAIN calls : calls[k] # "after_process"
        /\ \A k \in 0..Len(Log) : CountUpTo("after_process", k) <= CountUpTo("before_process", k)

C25_Witness ==
    /\ phase = "impl"
    /\ tree = Val(Arr(<<Val(Leaf("String"))>>))
    /\ root = Foo
    /\ proc.abortAt = 3
    /\ result = DeleteValueSoft
    /\ Log[AbortIdx].name = "process_array"
    /\ CountUpTo("before_process", Len(Log)) = 1
    /\ CountUpTo("after_process", Len(Log)) = 0

\* ---------------------------------------------------------- namespace
\* the path starts with the text "event."
StartsWithEvent == Len(path) >= 2 /\ path[1] = "event"

\* C26 (namespace requirement): get_value and get_iter return None for
\* every path that does not start with "event.", whatever the event holds.
C26_Namespace ==
    ~StartsWithEvent =>
        /\ Asked => got.tag = "None"
        /\ IterAsked => iter.tag = "None" /\ yielded = <<>>

C26_Witness ==
    /\ Asked
    /\ path = <<"release">>
    /\ Field(event, "release") = S("1.1.1")
    /\ got.tag = "None"

\* ----------------------------------------------------------- platform
Platform == Field(event, "platform")

\* C27 (platform is never None): event.platform resolves to the string
\* "other" when the platform is absent and to the stored string otherwise.
C27_Platform ==
    (Asked /\ path = <<"event", "platform">>) =>
        /\ got.tag = "Some"
        /\ Platform.t = "absent" => got.val = [k |-> "String", v |-> "other"]
        /\ Platform.t # "absent" => got.val = [k |-> "String", v |-> Platform.v]

C27_Witness ==
    /\ Asked
    /\ path = <<"event", "platform">>
    /\ Platform.t = "absent"
    /\ Field(event, "level") = S("info")
    /\ got = SomeVal([k |-> "String", v |-> "other"], "exact")

\* --------------------------------------------------------- user fields
UserField(name) == Field(Field(event, "user"), name)
OrNoneFields == {"email", "id", "segment"}
PlainFields == {"name", "ip_address"}

\* C28 (empty strings of user fields): event.user.email, .id and .segment
\* are None for a stored empty string as for an absent one; event.user.name
\* and .ip_address are Some("") for a stored empty string.  A non-empty
\* string is returned by all five, an absent one by none.
C28_UserEmpty ==
    Asked =>
        /\ \A f \in OrNoneFields :
              path = <<"event", "user", f>> =>
                 IF UserField(f).t = "absent" \/ UserField(f) = S("")
                 THEN got.tag = "None"
                 ELSE got.tag = "Some" /\ got.val = [k |-> "String", v |-> UserField(f).v]
        /\ \A f \in PlainFields :
              path = <<"event", "user", f>> =>
                 IF UserField(f).t = "absent"
                 THEN got.tag = "None"
                 ELSE got.tag = "Some" /\ got.val = [k |-> "String", v |-> UserField(f).v]

C28_Witness ==
    /\ Asked
    /\ path = <<"event", "user", "name">>
    /\ UserField("name") = S("")
    /\ got = SomeVal([k |-> "String", v |-> ""], "exact")

\* C29 (duration boundary): for a transaction whose start_timestamp equals
\* its timestamp, event.duration is the number 0 and not None.
C29_ZeroDuration ==
    (/\ Asked
     /\ path = <<"event", "duration">>
     /\ IsTransaction
     /\ StartTs.t = "Timestamp"
     /\ EndTs = StartTs) =>
        got = SomeVal([k |-> "F64", v |-> "0"], "exact")

C29_Witness ==
    /\ Asked
    /\ path = <<"event", "duration">>
    /\ IsTransaction
    /\ StartTs = Ts(1)
    /\ EndTs = Ts(1)
    /\ got.tag = "Some"
    /\ got.val.v = "0"

\* --------------------------------------------------------- user agent
AgentAsked == phase = "agent"
\* the positions of the headers that have an entry and a name equal to
\* "user-agent" in some case
AgentMatches ==
    {i \in DOMAIN HeaderItems :
        /\ HeaderItems[i].present
        /\ HeaderItems[i].key.some
        /\ \E v \in CaseVariants(<<"user-agent">>) : HeaderItems[i].key.s = v}

====
